---------------------------- MODULE Spec2Model ----------------------------
(***************************************************************************)
(* Key detection engine of PianoImprovisationHelper                        *)
(* (src/src/services/keyDetection.ts): the Krumhansl-Schmuckler profile    *)
(* matcher and the asynchronous audio analysis that feeds it.              *)
(*                                                                         *)
(* Numbers.  The source computes in IEEE doubles; the model computes the   *)
(* same expressions in exact arithmetic:                                   *)
(*   - a histogram is a vector of rationals with one common denominator,   *)
(*     [num |-> <<n1, ..., nk>>, den |-> d], bin i holding ni / d;         *)
(*   - the profiles are held in hundredths (6.35 is 635);                  *)
(*   - a correlation is the real number sgn * num / sqrt(aa * bb), held as *)
(*     the record [sgn, num, aa, bb]; comparisons of such numbers are      *)
(*     decided exactly, on integers wider than TLC's 32 bits (Big* below); *)
(*   - a spectrum lists the bins that carry a finite level, in dB that are *)
(*     multiples of 20, so that 10^(db/20) is a rational.                  *)
(***************************************************************************)
EXTENDS Integers, Sequences, FiniteSets, TLC

\* Bounds of the model: a caller's histogram is built from at most MaxNotes
\* unit notes; an analysis samples at most MaxFrames frames (the `frames`
\* option, 96 by default).
MaxNotes == 2
MaxFrames == 2

VARIABLES
  MAJOR_PROFILE,  \* module-level array of keyDetection.ts (lines 16-18)
  MINOR_PROFILE,  \* module-level array of keyDetection.ts (lines 19-21)
  callerHist,     \* the caller's histogram array
  detectOut,      \* the latest call of detectKeyFromPitchClassHistogram
  firstDetect,    \* the first call of it
  rankOut,        \* the latest call of rankKeyCandidatesFromPitchClassHistogram
  firstRank       \* the first call of it

VARIABLES
  AudioContextCtor,  \* whether window.AudioContext || webkitAudioContext is truthy
  frames,            \* the `frames` option of the run
  pc,                \* where detectKeyFromAudioUrl stands: the await it is parked at
  ctx,               \* the AudioContext of the run
  analyser,          \* its AnalyserNode
  src,               \* its AudioBufferSourceNode
  fetchCalls,        \* how many times fetch has been called
  fetchPromise,      \* the promise fetch(audioUrl) returned
  bufPromise,        \* the promise res.arrayBuffer() returned
  decodePromise,     \* the promise ctx.decodeAudioData(buf) returned
  audio,             \* the decoded AudioBuffer
  frameIndex,        \* the loop counter i
  histTotal,         \* the local array `hist`: the raw pitch-class total
  freqBins,          \* what getFloatFrequencyData wrote into freqBins, frame by frame
  smooth,            \* the local array `smooth`
  detectPromise,     \* the promise detectKeyFromAudioUrl returned
  summaryPromise     \* the promise detectKeyFromAudioUrlWithCandidates returned

VARIABLES
  key,         \* the Key passed to suggestProgressionsForKey
  suggestion,  \* what the call returned
  raw,         \* the text passed to buildMusicBrainzQuery, character by character
  mbQuery      \* what the call returned

VARIABLES
  localStorage,  \* window.localStorage, as far as STORAGE_KEY goes
  clock,         \* Date.now()
  loaded,        \* what loadPersistedState returned, the storage being as it is now
  lastWrite      \* the latest call that wrote or removed the key

VARIABLES
  state,            \* the reducer state of App
  analysisSeconds,  \* useState(18)
  lookups,          \* click handlers awaiting lookupPreviewUrl
  selections,       \* songs selected so far
  deps,             \* the dependencies the effect last ran with
  runs,             \* the effect instances that started an analysis
  keyCache          \* the module-level Map keyCache

VARIABLES
  matcherRun  \* a matcher call on doubles: the function, its locals, its result

matcherVars ==
  <<MAJOR_PROFILE, MINOR_PROFILE, callerHist, detectOut, firstDetect, rankOut, firstRank>>

audioVars ==
  <<AudioContextCtor, frames, pc, ctx, analyser, src, fetchCalls, fetchPromise,
    bufPromise, decodePromise, audio, frameIndex, histTotal, freqBins, smooth,
    detectPromise, summaryPromise>>

serviceVars == <<key, suggestion, raw, mbQuery>>

storeVars == <<localStorage, clock, loaded, lastWrite>>

appVars == <<state, analysisSeconds, lookups, selections, deps, runs, keyCache>>

MaxSelections == 2
MaxRuns == 3

\* The state outside the exact-arithmetic matcher and the audio analysis.
otherVars == <<serviceVars, storeVars, appVars, matcherRun>>

\* All but the state of one module.
exceptServices == <<matcherVars, audioVars, storeVars, appVars, matcherRun>>
exceptStore == <<matcherVars, audioVars, serviceVars, appVars, matcherRun>>
exceptApp == <<matcherVars, audioVars, serviceVars, storeVars, matcherRun>>

vars == <<matcherVars, audioVars, otherVars>>

(***************************************************************************)
(* Exact integer arithmetic beyond 32 bits.  A natural number is a         *)
(* little-endian sequence of limbs in base Limb with no leading zero limb  *)
(* (0 is <<>>); an integer is [sgn |-> -1, 0 or 1, mag |-> natural].       *)
(***************************************************************************)
Limb == 100 * 100

Abs(x) == IF x < 0 THEN -x ELSE x
Sign(x) == IF x < 0 THEN -1 ELSE IF x > 0 THEN 1 ELSE 0

RECURSIVE ToBig(_)
ToBig(x) ==
  IF x = 0 THEN <<>>
  ELSE IF x < Limb THEN <<x>>
  ELSE <<x % Limb>> \o ToBig(x \div Limb)

RECURSIVE BigCarry(_, _)
BigCarry(cols, c) ==
  IF cols = <<>> THEN ToBig(c)
  ELSE LET v == Head(cols) + c
       IN  <<v % Limb>> \o BigCarry(Tail(cols), v \div Limb)

RECURSIVE ColumnSum(_, _, _, _)
ColumnSum(a, b, k, i) ==
  IF i > Len(a) THEN 0
  ELSE (IF k - i + 1 >= 1 /\ k - i + 1 <= Len(b) THEN a[i] * b[k - i + 1] ELSE 0)
       + ColumnSum(a, b, k, i + 1)

BigMul(a, b) ==
  BigCarry([k \in 1..(Len(a) + Len(b) - 1) |-> ColumnSum(a, b, k, 1)], 0)

LimbAt(a, k) == IF k <= Len(a) THEN a[k] ELSE 0

BigAdd(a, b) ==
  BigCarry([k \in 1..(IF Len(a) > Len(b) THEN Len(a) ELSE Len(b)) |->
              LimbAt(a, k) + LimbAt(b, k)], 0)

RECURSIVE BigStrip(_)
BigStrip(a) ==
  IF a = <<>> THEN <<>>
  ELSE IF a[Len(a)] = 0 THEN BigStrip(SubSeq(a, 1, Len(a) - 1))
  ELSE a

\* a - b for a >= b, limb k on with the borrow brw.
RECURSIVE BigBorrow(_, _, _, _)
BigBorrow(a, b, k, brw) ==
  IF k > Len(a) THEN <<>>
  ELSE LET v == a[k] - LimbAt(b, k) - brw
       IN  IF v < 0 THEN <<v + Limb>> \o BigBorrow(a, b, k + 1, 1)
           ELSE <<v>> \o BigBorrow(a, b, k + 1, 0)

BigSub(a, b) == BigStrip(BigBorrow(a, b, 1, 0))

RECURSIVE BigLessFrom(_, _, _)
BigLessFrom(a, b, i) ==
  IF i = 0 THEN FALSE
  ELSE IF a[i] # b[i] THEN a[i] < b[i]
  ELSE BigLessFrom(a, b, i - 1)

BigLess(a, b) ==
  IF Len(a) # Len(b) THEN Len(a) < Len(b) ELSE BigLessFrom(a, b, Len(a))

WideOfInt(x) == [sgn |-> Sign(x), mag |-> ToBig(Abs(x))]

\* p - n for naturals p, n.
WideDifference(p, n) ==
  IF p = n THEN [sgn |-> 0, mag |-> <<>>]
  ELSE IF BigLess(p, n) THEN [sgn |-> -1, mag |-> BigSub(n, p)]
  ELSE [sgn |-> 1, mag |-> BigSub(p, n)]

\* The sum of the products xs[i] * ys[i] with the given sign, from i on.
RECURSIVE SignedProducts(_, _, _, _)
SignedProducts(xs, ys, sgn, i) ==
  IF i > Len(xs) THEN <<>>
  ELSE IF Sign(xs[i]) * Sign(ys[i]) = sgn
  THEN BigAdd(BigMul(ToBig(Abs(xs[i])), ToBig(Abs(ys[i]))),
              SignedProducts(xs, ys, sgn, i + 1))
  ELSE SignedProducts(xs, ys, sgn, i + 1)

RECURSIVE SeqSum(_)
SeqSum(xs) == IF xs = <<>> THEN 0 ELSE Head(xs) + SeqSum(Tail(xs))

\* Twelve products of factors below this bound sum to less than 2^31.
NarrowFactor == 13 * 1000

IsNarrow(xs) == \A i \in 1..Len(xs) : Abs(xs[i]) < NarrowFactor

\* The sum of the products xs[i] * ys[i], exactly.
WideDot(xs, ys) ==
  IF Len(xs) <= 12 /\ IsNarrow(xs) /\ IsNarrow(ys)
  THEN WideOfInt(SeqSum([i \in 1..Len(xs) |-> xs[i] * ys[i]]))
  ELSE WideDifference(SignedProducts(xs, ys, 1, 1), SignedProducts(xs, ys, -1, 1))

(***************************************************************************)
(* Correlation scores: the real number sgn * num / sqrt(aa * bb), with     *)
(* naturals num, aa, bb and aa, bb > 0.                                    *)
(***************************************************************************)
ZeroScore == [sgn |-> 0, num |-> <<>>, aa |-> <<1>>, bb |-> <<1>>]

\* The square of s's numerator times the other score's radicand: the two
\* sides of |s| > |t| after squaring (a radicand factor the two share
\* cancels).
ScoreCross(s, t) ==
  IF s.aa = t.aa
  THEN BigMul(BigMul(s.num, s.num), t.bb)
  ELSE BigMul(BigMul(s.num, s.num), BigMul(t.aa, t.bb))

\* s > t, exactly.
ScoreGt(s, t) ==
  IF s.sgn # t.sgn THEN s.sgn > t.sgn
  ELSE IF s.sgn = 0 THEN FALSE
  ELSE IF s.aa = t.aa /\ s.bb = t.bb
  THEN (IF s.sgn > 0 THEN BigLess(t.num, s.num) ELSE BigLess(s.num, t.num))
  ELSE IF s.sgn > 0 THEN BigLess(ScoreCross(t, s), ScoreCross(s, t))
  ELSE BigLess(ScoreCross(s, t), ScoreCross(t, s))

ScoreEq(s, t) == ~ScoreGt(s, t) /\ ~ScoreGt(t, s)
ScoreGeq(s, t) == ~ScoreGt(t, s)

(***************************************************************************)
(* Numbers of the form (c + s) / d, c an integer, s a correlation score,   *)
(* d > 0: what line 86 builds from a score (0, 1, (score + 1) / 2).        *)
(***************************************************************************)
NumConst(k) == [c |-> k, s |-> ZeroScore, d |-> 1]
NumOfScore(s) == [c |-> 0, s |-> s, d |-> 1]
NumPlusOne(x) == [x EXCEPT !.c = x.c + x.d]
NumHalf(x) == [x EXCEPT !.d = 2 * x.d]

BigSq(x) == BigMul(ToBig(Abs(x)), ToBig(Abs(x)))
ScoreRadicand(s) == BigMul(s.aa, s.bb)

\* s < p / q, q > 0.
SurdLtRat(s, p, q) ==
  LET l2 == BigMul(BigSq(q), BigMul(s.num, s.num))
      r2 == BigMul(BigSq(p), ScoreRadicand(s))
  IN  IF p <= 0
      THEN (IF s.sgn >= 0 THEN FALSE ELSE BigLess(r2, l2))
      ELSE (IF s.sgn <= 0 THEN TRUE ELSE BigLess(l2, r2))

\* p / q < s, q > 0.
RatLtSurd(p, q, s) ==
  LET l2 == BigMul(BigSq(q), BigMul(s.num, s.num))
      r2 == BigMul(BigSq(p), ScoreRadicand(s))
  IN  IF p >= 0
      THEN (IF s.sgn <= 0 THEN FALSE ELSE BigLess(r2, l2))
      ELSE (IF s.sgn >= 0 THEN TRUE ELSE BigLess(l2, r2))

\* x < y.  Every number the model builds either has a zero score part or
\* shares c and d with the number it is compared with.
NumLt(x, y) ==
  IF x.s.sgn = 0 /\ y.s.sgn = 0 THEN x.c * y.d < y.c * x.d
  ELSE IF y.s.sgn = 0 THEN SurdLtRat(x.s, y.c * x.d - x.c * y.d, y.d)
  ELSE IF x.s.sgn = 0 THEN RatLtSurd(x.c * y.d - y.c * x.d, x.d, y.s)
  ELSE IF x.c = y.c /\ x.d = y.d THEN ScoreGt(y.s, x.s)
  ELSE CHOOSE b \in {} : TRUE

NumLeq(x, y) == ~NumLt(y, x)
NumEq(x, y) == ~NumLt(x, y) /\ ~NumLt(y, x)

\* Math.min(a, b) and Math.max(a, b) on such numbers.
MathMin(a, b) == IF NumLt(b, a) THEN b ELSE a
MathMax(a, b) == IF NumLt(a, b) THEN b ELSE a

(***************************************************************************)
(* keyDetection.ts, the matcher.                                           *)
(***************************************************************************)
\* Krumhansl-Schmuckler profiles, in hundredths: the array literals the
\* module-level constants MAJOR_PROFILE and MINOR_PROFILE are bound to.
MajorProfileLiteral ==
  [num |-> <<635, 223, 348, 233, 438, 409, 252, 519, 239, 366, 229, 288>>,
   den |-> 100]
MinorProfileLiteral ==
  [num |-> <<633, 268, 352, 538, 260, 353, 254, 475, 398, 269, 334, 317>>,
   den |-> 100]

\* Mutant of TONICS_SHARP: the black keys are spelt with flats.
tonicsFlat == <<"C", "Db", "D", "Eb", "E", "F", "Gb", "G", "Ab", "A", "Bb", "B">>

TONICS_SHARP == <<"C", "C#", "D", "D#", "E", "F", "F#", "G", "G#", "A", "A#", "B">>

Modes == {"major", "minor"}

\* arr.slice(k).concat(arr.slice(0, k)): element i of the result (from 0)
\* is element (i + k) mod len of arr.
rotateSeq(arr, n) ==
  LET len == Len(arr)
      k == ((n % len) + len) % len
  IN  SubSeq(arr, k + 1, len) \o SubSeq(arr, 1, k)

rotate(v, n) == [num |-> rotateSeq(v.num, n), den |-> v.den]

\* mean(xs) = SeqSum(xs.num) / (Len(xs.num) * xs.den); the map x => x - mean
\* of corr, as numerators over the denominator Len(xs.num) * xs.den.
centred(xs) ==
  [num |-> [i \in 1..Len(xs.num) |-> Len(xs.num) * xs.num[i] - SeqSum(xs.num)],
   den |-> Len(xs.num) * xs.den]

\* dot(a, b), as a numerator over a.den * b.den.
dot(a, b) == WideDot(a.num, b.num)

\* Pearson correlation.  With ac, bc over the denominators da, db:
\* norm(ac) = sqrt(dot(ac, ac)) / da, norm(bc) = sqrt(dot(bc, bc)) / db and
\* dot(ac, bc) / (da * db) divided by their product is
\* dot(ac, bc) / sqrt(dot(ac, ac) * dot(bc, bc)); denom === 0 exactly when
\* one of the two radicands is 0.
corr(a, b) ==
  LET ac == centred(a)
      bc == centred(b)
      aa == dot(ac, ac)
      bb == dot(bc, bc)
      ab == dot(ac, bc)
  IN  IF aa.sgn = 0 \/ bb.sgn = 0 THEN ZeroScore
      ELSE IF ab.sgn = 0 THEN ZeroScore
      ELSE [sgn |-> ab.sgn, num |-> ab.mag, aa |-> aa.mag, bb |-> bb.mag]

\* total = sum of the bins = SeqSum(hist.num) / hist.den; x / total is
\* hist.num[i] / SeqSum(hist.num).
normalizeHistogram(hist) ==
  LET total == SeqSum(hist.num)
  IN  IF total <= 0
      THEN [num |-> [i \in 1..Len(hist.num) |-> 0], den |-> 1]
      ELSE [num |-> hist.num, den |-> total]

RECURSIVE SeqMax(_)
SeqMax(xs) ==
  IF Len(xs) = 1 THEN xs[1]
  ELSE LET m == SeqMax(Tail(xs)) IN IF xs[1] > m THEN xs[1] ELSE m

\* Mutant of maxBinNotPositive: maxBin < 0.
maxBinNegative(h) == Len(h.num) = 0 \/ SeqMax(h.num) < 0

\* Math.max(...h) <= 0 (h.den > 0); Math.max() of no arguments is -Infinity.
maxBinNotPositive(h) == Len(h.num) = 0 \/ SeqMax(h.num) <= 0

ProfileOf(mode) == IF mode = "major" THEN MAJOR_PROFILE ELSE MINOR_PROFILE

\* Mutant of confidenceOf: the score clamped without the affine remap.
confidenceUnmapped(score) ==
  MathMax(NumConst(0), MathMin(NumConst(1), NumOfScore(score)))

\* (score + 1) / 2 clamped to [0, 1] (line 86).
confidenceOf(score) ==
  MathMax(NumConst(0), MathMin(NumConst(1), NumHalf(NumPlusOne(NumOfScore(score)))))

\* The local `best` of detectKeyFromPitchClassHistogram; NoBest is null.
NoBest == [tonicIndex |-> -1, mode |-> "none", score |-> ZeroScore]

\* Mutant of detectStep: the second test reads the `best` the pass began with.
detectStepStale(best, h, tonicIndex) ==
  LET majScore == corr(h, rotate(MAJOR_PROFILE, tonicIndex))
      minScore == corr(h, rotate(MINOR_PROFILE, tonicIndex))
  IN  IF best = NoBest \/ ScoreGt(minScore, best.score)
      THEN [tonicIndex |-> tonicIndex, mode |-> "minor", score |-> minScore]
      ELSE IF ScoreGt(majScore, best.score)
      THEN [tonicIndex |-> tonicIndex, mode |-> "major", score |-> majScore]
      ELSE best

\* Mutant of detectStep: >= for >, the last of several maxima wins.
detectStepLastWins(best, h, tonicIndex) ==
  LET majScore == corr(h, rotate(MAJOR_PROFILE, tonicIndex))
      minScore == corr(h, rotate(MINOR_PROFILE, tonicIndex))
      b1 == IF best = NoBest \/ ScoreGeq(majScore, best.score)
            THEN [tonicIndex |-> tonicIndex, mode |-> "major", score |-> majScore]
            ELSE best
  IN  IF b1 = NoBest \/ ScoreGeq(minScore, b1.score)
      THEN [tonicIndex |-> tonicIndex, mode |-> "minor", score |-> minScore]
      ELSE b1

\* One pass of the loop body (lines 73-80).
detectStep(best, h, tonicIndex) ==
  LET majScore == corr(h, rotate(MAJOR_PROFILE, tonicIndex))
      minScore == corr(h, rotate(MINOR_PROFILE, tonicIndex))
      b1 == IF best = NoBest \/ ScoreGt(majScore, best.score)
            THEN [tonicIndex |-> tonicIndex, mode |-> "major", score |-> majScore]
            ELSE best
  IN  IF b1 = NoBest \/ ScoreGt(minScore, b1.score)
      THEN [tonicIndex |-> tonicIndex, mode |-> "minor", score |-> minScore]
      ELSE b1

RECURSIVE detectLoop(_, _, _)
detectLoop(best, h, tonicIndex) ==
  IF tonicIndex >= 12 THEN best
  ELSE detectLoop(detectStep(best, h, tonicIndex), h, tonicIndex + 1)

\* Results of the two exported functions.  kind is "threw", "null" (null or
\* the empty list), "key" (a KeyDetectionResult) or "list".
NoProfile == [num |-> <<>>, den |-> 1]
Threw == [kind |-> "threw", tonic |-> "", mode |-> "", confidence |-> NumConst(0),
          profile |-> NoProfile]
Null == [kind |-> "null", tonic |-> "", mode |-> "", confidence |-> NumConst(0),
         profile |-> NoProfile]

detectKeyFromPitchClassHistogram(hist) ==
  IF Len(hist.num) # 12 THEN Threw
  ELSE LET h == normalizeHistogram(hist)
       IN  IF maxBinNotPositive(h) THEN Null
           ELSE LET best == detectLoop(NoBest, h, 0)
                IN  IF best = NoBest THEN Null
                    ELSE [kind |-> "key",
                          tonic |-> TONICS_SHARP[best.tonicIndex + 1],
                          mode |-> best.mode,
                          confidence |-> confidenceOf(best.score),
                          profile |-> h]

\* Mutant of comparatorNegative: a also sorts before b on a tie.
comparatorNotPositive(a, b) == ScoreGeq(a.score, b.score)

\* The comparator of line 112, (a, b) => b.score - a.score, is negative
\* exactly when a.score > b.score: a then sorts before b.
comparatorNegative(a, b) == ScoreGt(a.score, b.score)

\* Array.prototype.sort is stable (ECMAScript 2019): c is placed before the
\* first element it must precede, after every element it ties with.
RECURSIVE sortInsert(_, _)
sortInsert(sorted, c) ==
  IF sorted = <<>> THEN <<c>>
  ELSE IF comparatorNegative(c, Head(sorted)) THEN <<c>> \o sorted
  ELSE <<Head(sorted)>> \o sortInsert(Tail(sorted), c)

RECURSIVE sortFrom(_, _, _)
sortFrom(sorted, arr, i) ==
  IF i > Len(arr) THEN sorted
  ELSE sortFrom(sortInsert(sorted, arr[i]), arr, i + 1)

sort(arr) == sortFrom(<<>>, arr, 1)

\* The candidates pushed by the loop of lines 105-110, in push order.
pushedCandidates(h) ==
  [k \in 1..24 |->
     LET tonicIndex == (k - 1) \div 2
         mode == IF k % 2 = 1 THEN "major" ELSE "minor"
     IN  [tonic |-> TONICS_SHARP[tonicIndex + 1],
          mode |-> mode,
          score |-> corr(h, rotate(ProfileOf(mode), tonicIndex))]]

ThrewList == [kind |-> "threw", list |-> <<>>]

\* Mutant of rankKeyCandidatesFromPitchClassHistogram: only an array that is
\* too long is refused.
rankRefusingLongOnly(hist) ==
  IF Len(hist.num) > 12 THEN ThrewList
  ELSE LET h == normalizeHistogram(hist)
       IN  IF maxBinNotPositive(h) THEN [kind |-> "list", list |-> <<>>]
           ELSE [kind |-> "list", list |-> sort(pushedCandidates(h))]

rankKeyCandidatesFromPitchClassHistogram(hist) ==
  IF Len(hist.num) # 12 THEN ThrewList
  ELSE LET h == normalizeHistogram(hist)
       IN  IF maxBinNotPositive(h) THEN [kind |-> "list", list |-> <<>>]
           ELSE [kind |-> "list", list |-> sort(pushedCandidates(h))]

\* lines 213-216: the candidates detectKeyFromAudioUrlWithCandidates lists
\* for a detection result res.
topCandidatesOf(res) ==
  LET ranked == rankKeyCandidatesFromPitchClassHistogram(res.profile).list
  IN  SubSeq(ranked, 1, IF Len(ranked) < 5 THEN Len(ranked) ELSE 5)

(***************************************************************************)
(* The Number type of the matcher: IEEE 754 binary64, rounding to nearest, *)
(* ties to even.  A double is [sgn, man, exp] standing for                 *)
(* sgn * man * 2^exp, where man is a natural of exactly 53 bits, or <<>>   *)
(* for zero (then sgn = 1 and exp = 0: -0 and 0 are equal under === and    *)
(* under <, >).  The exponent is not bounded: the values met below lie     *)
(* between 2^-130 and 2^10, where every double is normal.                  *)
(***************************************************************************)
\* 2^k for 0 <= k < 13, and 8192^j by repeated squaring.
Pow2(k) == <<1, 2, 4, 8, 16, 32, 64, 128, 256, 512, 1024, 2048, 4096>>[k + 1]

RECURSIVE BigPow8192(_)
BigPow8192(j) ==
  IF j = 0 THEN <<1>>
  ELSE LET h == BigPow8192(j \div 2)
       IN  BigMul(BigMul(h, h), IF j % 2 = 0 THEN <<1>> ELSE ToBig(8192))


BigPow2 == [k \in 0..400 |-> BigMul(ToBig(Pow2(k % 13)), BigPow8192(k \div 13))]

\* The number of bits of the natural n > 0: a limb holds between 13 and
\* 14 bits.
bitLength(n) ==
  CHOOSE k \in (13 * (Len(n) - 1) + 1)..(14 * Len(n)) :
    ~BigLess(n, BigPow2[k - 1]) /\ BigLess(n, BigPow2[k])

\* floor(a / d) and a mod d for a small natural d, limb i down.
RECURSIVE BigDivSmallFrom(_, _, _, _)
BigDivSmallFrom(a, d, i, rem) ==
  IF i = 0 THEN [quo |-> <<>>, rem |-> rem]
  ELSE LET cur == rem * Limb + a[i]
           rest == BigDivSmallFrom(a, d, i - 1, cur % d)
       IN  [quo |-> rest.quo \o <<cur \div d>>, rem |-> rest.rem]

\* floor(n / 2^s) and whether n mod 2^s # 0, 13 bits at a time.
RECURSIVE shiftRight(_, _, _)
shiftRight(n, s, sticky) ==
  IF s = 0 THEN [quo |-> n, sticky |-> sticky]
  ELSE LET by == IF s >= 13 THEN 13 ELSE s
           r == BigDivSmallFrom(n, Pow2(by % 13) * (IF by = 13 THEN 8192 ELSE 1), Len(n), 0)
       IN  shiftRight(BigStrip(r.quo), s - by, sticky \/ r.rem # 0)

DoubleZero == [sgn |-> 1, man |-> <<>>, exp |-> 0]

\* The 54 leading bits r.quo of a natural of `bits` bits, with r.sticky
\* telling whether anything lies below them, rounded to 53 bits: up when
\* the last bit is set and either something lies below it or the bit
\* before it is set.
roundShifted(sgn, e, bits, r) ==
  LET up == r.quo[1] % 2 = 1 /\ (r.sticky \/ (r.quo[1] \div 2) % 2 = 1)
      half == BigStrip(BigDivSmallFrom(r.quo, 2, Len(r.quo), 0).quo)
      m == IF up THEN BigAdd(half, <<1>>) ELSE half
  IN  IF m = BigPow2[53]
      THEN [sgn |-> sgn, man |-> BigPow2[52], exp |-> e + bits - 52]
      ELSE [sgn |-> sgn, man |-> m, exp |-> e + bits - 53]

\* The double nearest to sgn * n * 2^e for n > 0 of `bits` bits.
roundBits(sgn, n, e, sticky, bits) ==
  IF bits <= 53
  THEN [sgn |-> sgn, man |-> BigMul(n, BigPow2[53 - bits]), exp |-> e - (53 - bits)]
  ELSE roundShifted(sgn, e, bits, shiftRight(n, bits - 54, sticky))

\* The double nearest to sgn * n * 2^e; when sticky, to sgn * (n + f) * 2^e
\* for some 0 < f < 1, and then n has at least 55 bits.
roundDouble(sgn, n, e, sticky) ==
  IF n = <<>> THEN DoubleZero ELSE roundBits(sgn, n, e, sticky, bitLength(n))

doubleOfInt(k) == roundDouble(IF k < 0 THEN -1 ELSE 1, ToBig(Abs(k)), 0, FALSE)

doubleNeg(x) == IF x.man = <<>> THEN x ELSE [x EXCEPT !.sgn = -x.sgn]

\* xs * a * 2^e + ys * b * 2^e for naturals a, b > 0
addAligned(xs, a, ys, b, e) ==
  IF xs # ys /\ a = b THEN DoubleZero
  ELSE roundDouble(IF xs = ys \/ BigLess(b, a) THEN xs ELSE ys,
                   IF xs = ys THEN BigAdd(a, b)
                   ELSE IF BigLess(a, b) THEN BigSub(b, a) ELSE BigSub(a, b),
                   e, FALSE)

\* x + y
doubleAdd(x, y) ==
  IF x.man = <<>> THEN y
  ELSE IF y.man = <<>> THEN x
  ELSE LET e == IF x.exp < y.exp THEN x.exp ELSE y.exp
       IN  addAligned(x.sgn, BigMul(x.man, BigPow2[x.exp - e]),
                      y.sgn, BigMul(y.man, BigPow2[y.exp - e]), e)

\* x - y
doubleSub(x, y) == doubleAdd(x, doubleNeg(y))

\* x * y
doubleMul(x, y) ==
  IF x.man = <<>> \/ y.man = <<>> THEN DoubleZero
  ELSE roundDouble(x.sgn * y.sgn, BigMul(x.man, y.man), x.exp + y.exp, FALSE)

\* n more bits of the quotient of r / d for r < d, after the bits q.
RECURSIVE divideChunk(_, _, _, _)
divideChunk(r, d, q, n) ==
  IF n = 0 THEN [quo |-> q, rem |-> r]
  ELSE LET r2 == BigAdd(r, r)
       IN  IF BigLess(r2, d) THEN divideChunk(r2, d, 2 * q, n - 1)
           ELSE divideChunk(BigSub(r2, d), d, 2 * q + 1, n - 1)

\* 7 bits at a time.
RECURSIVE divideBits(_, _, _, _)
divideBits(r, d, q, chunks) ==
  IF chunks = 0 THEN [quo |-> q, rem |-> r]
  ELSE LET c == divideChunk(r, d, 0, 7)
       IN  divideBits(c.rem, d, BigAdd(BigMul(q, ToBig(128)), ToBig(c.quo)), chunks - 1)

\* x / y for y # 0: 56 bits of the quotient of the mantissas and whether
\* anything is left.
doubleDiv(x, y) ==
  IF x.man = <<>> THEN DoubleZero
  ELSE LET whole == ~BigLess(x.man, y.man)
           r == divideBits(IF whole THEN BigSub(x.man, y.man) ELSE x.man, y.man,
                           IF whole THEN <<1>> ELSE <<>>, 8)
       IN  roundDouble(x.sgn * y.sgn, r.quo, x.exp - y.exp - 56, r.rem # <<>>)

\* The largest r + t * 2^p with (r + t * 2^p)^2 <= n, t < 2^bits, found
\* bit by bit from bit p + bits - 1 down.
RECURSIVE sqrtChunk(_, _, _, _)
sqrtChunk(n, r, p, bits) ==
  IF bits = 0 THEN r
  ELSE LET t == BigAdd(r, BigPow2[p + bits - 1])
       IN  IF BigLess(n, BigMul(t, t)) THEN sqrtChunk(n, r, p, bits - 1)
           ELSE sqrtChunk(n, t, p, bits - 1)

\* 7 bits at a time, from bit 7 * chunks - 1 down.
RECURSIVE sqrtBits(_, _, _)
sqrtBits(n, r, chunks) ==
  IF chunks = 0 THEN r
  ELSE sqrtBits(n, sqrtChunk(n, r, 7 * (chunks - 1), 7), chunks - 1)

\* The double nearest to sqrt(n) * 2^e for a natural n of 111 or 112 bits.
sqrtRounded(n, e) ==
  LET r == sqrtBits(n, <<>>, 8)
  IN  roundDouble(1, r, e, BigMul(r, r) # n)

\* Math.sqrt(x) for x >= 0: the root of man * 2^k with the rest of the
\* exponent even has 55 or 56 bits.
doubleSqrt(x) ==
  IF x.man = <<>> THEN DoubleZero
  ELSE LET k == IF (x.exp - 58) % 2 = 0 THEN 58 ELSE 59
       IN  sqrtRounded(BigMul(x.man, BigPow2[k]), (x.exp - k) \div 2)

\* d > 0
doublePositive(d) == d.man # <<>> /\ d.sgn = 1

\* x > y
doubleGt(x, y) == doublePositive(doubleSub(x, y))

(***************************************************************************)
(* The matcher as it runs on doubles.  An array given by a literal         *)
(* [num, den] holds the doubles nearest to num[i] / den, as a decimal      *)
(* literal such as 6.35 or 0.2 does.                                       *)
(***************************************************************************)
doublesOf(v) ==
  [i \in 1..Len(v.num) |-> doubleDiv(doubleOfInt(v.num[i]), doubleOfInt(v.den))]

\* xs.reduce((a, b) => a + b, s) from element i on.
RECURSIVE reduceAdd(_, _, _)
reduceAdd(xs, i, s) ==
  IF i > Len(xs) THEN s ELSE reduceAdd(xs, i + 1, doubleAdd(s, xs[i]))

meanDouble(xs) == doubleDiv(reduceAdd(xs, 1, DoubleZero), doubleOfInt(Len(xs)))

\* the loop of dot from i on: s += a[i] * b[i]
RECURSIVE dotDouble(_, _, _, _)
dotDouble(a, b, i, s) ==
  IF i > Len(a) THEN s
  ELSE dotDouble(a, b, i + 1, doubleAdd(s, doubleMul(a[i], b[i])))

normDouble(a) == doubleSqrt(dotDouble(a, a, 1, DoubleZero))

\* a.map((x) => x - am) (lines 48-49)
centredDouble(a, am) == [i \in 1..Len(a) |-> doubleSub(a[i], am)]

\* lines 52-53 for the centred arrays ac, bc and their denom
corrReturn(ac, bc, denom) ==
  IF denom = DoubleZero THEN DoubleZero
  ELSE doubleDiv(dotDouble(ac, bc, 1, DoubleZero), denom)

\* lines 50-53 for the centred arrays ac, bc
corrCentred(ac, bc) ==
  corrReturn(ac, bc, doubleMul(normDouble(ac), normDouble(bc)))

corrDouble(a, b) ==
  corrCentred(centredDouble(a, meanDouble(a)), centredDouble(b, meanDouble(b)))

\* lines 58-59 for the total of hist
dividedByTotal(hist, total) ==
  IF ~doubleGt(total, DoubleZero) THEN [i \in 1..Len(hist) |-> DoubleZero]
  ELSE [i \in 1..Len(hist) |-> doubleDiv(hist[i], total)]

normalizeHistogramDouble(hist) == dividedByTotal(hist, reduceAdd(hist, 1, DoubleZero))

\* The score of candidate (tonicIndex, mode) for the normalized histogram h.
scoreDouble(h, tonicIndex, mode) ==
  corrDouble(h, rotateSeq(doublesOf(ProfileOf(mode)), tonicIndex))

\* The local `best` of detectKeyFromPitchClassHistogram on doubles.
NoBestDouble == [tonicIndex |-> -1, mode |-> "none", score |-> DoubleZero]

\* One of the two ifs of the loop body (lines 76-80): the candidate
\* (tonicIndex, mode) replaces best when there is none or its score is
\* greater.
replaceIfBetter(best, tonicIndex, mode, score) ==
  IF best = NoBestDouble \/ doubleGt(score, best.score)
  THEN [tonicIndex |-> tonicIndex, mode |-> mode, score |-> score]
  ELSE best

\* lines 79-80 for majScore = score.major and minScore = score.minor
stepWithScores(best, tonicIndex, score) ==
  replaceIfBetter(replaceIfBetter(best, tonicIndex, "major", score.major),
                  tonicIndex, "minor", score.minor)

\* One pass of the loop body (lines 73-80).
detectStepDouble(best, h, tonicIndex) ==
  stepWithScores(best, tonicIndex,
                 [mode \in {"major", "minor"} |-> scoreDouble(h, tonicIndex, mode)])

DoubleOne == doubleOfInt(1)

\* Math.min(x, y) and Math.max(x, y)
minDouble(x, y) == IF doubleGt(x, y) THEN y ELSE x
maxDouble(x, y) == IF doubleGt(y, x) THEN y ELSE x

\* Math.max(0, Math.min(1, (score + 1) / 2)) (line 86).
confidenceDouble(score) ==
  maxDouble(DoubleZero,
            minDouble(DoubleOne, doubleDiv(doubleAdd(score, DoubleOne), doubleOfInt(2))))

\* One pass of the loop of lines 105-110: two candidates pushed.
pushedDouble(h, tonicIndex) ==
  [k \in 1..2 |->
     [tonic |-> TONICS_SHARP[tonicIndex + 1],
      mode |-> <<"major", "minor">>[k],
      score |-> scoreDouble(h, tonicIndex, <<"major", "minor">>[k])]]

\* candidates.sort((a, b) => b.score - a.score): the sort is stable, so
\* element i comes after the elements with a greater score and after the
\* earlier elements with the same score.
sortDouble(arr) ==
  LET before(i) ==
        {j \in 1..Len(arr) :
           \/ doubleGt(arr[j].score, arr[i].score)
           \/ j < i /\ arr[j].score = arr[i].score}
  IN  [p \in 1..Len(arr) |->
         arr[CHOOSE i \in 1..Len(arr) : Cardinality(before(i)) = p - 1]]

\* The no-signal return for the normalized histogram h (lines 67-68 and
\* 101-102), or the locals as the loop finds them.
enteredWith(fn, h) ==
  LET noSignal == \A i \in 1..12 : ~doubleGt(h[i], DoubleZero)
  IN  [fn |-> fn, h |-> h, tonicIndex |-> 0, best |-> NoBestDouble,
       candidates |-> <<>>,
       out |-> IF ~noSignal THEN [kind |-> "none"]
               ELSE IF fn = "detect" THEN [kind |-> "null"]
               ELSE [kind |-> "list", list |-> <<>>]]

\* The statements before the loop: the length check, normalizeHistogram and
\* the no-signal return (lines 65-71 and 99-103).
enterDouble(fn, hist) ==
  IF Len(hist) # 12 THEN [fn |-> fn, h |-> <<>>, tonicIndex |-> 0, best |-> NoBestDouble,
                          candidates |-> <<>>, out |-> [kind |-> "threw"]]
  ELSE enteredWith(fn, normalizeHistogramDouble(hist))

\* No call is running and none has returned.
NoResult == [kind |-> "none"]
NoRun ==
  [fn |-> "none", h |-> <<>>, tonicIndex |-> 0, best |-> NoBestDouble,
   candidates |-> <<>>, out |-> NoResult]

(***************************************************************************)
(* What a matcher call leaves in the arrays it was handed.                 *)
(***************************************************************************)
\* Mutant of rotateLeaves: the rotation is done in place.
rotateWrites(arr, n) == rotate(arr, n)

\* rotate reads arr with slice and concat, which copy (line 28).
rotateLeaves(arr, n) == arr

\* A profile array after the twelve rotate calls of the loop.
RECURSIVE profileAfterLoop(_, _)
profileAfterLoop(arr, tonicIndex) ==
  IF tonicIndex >= 12 THEN arr
  ELSE profileAfterLoop(rotateLeaves(arr, tonicIndex), tonicIndex + 1)

\* normalizeHistogram reads hist with reduce and map, which build new
\* values (lines 57-59).
normalizeHistogramLeaves(h) == h

\* The caller's array and a profile array after either exported function:
\* the length check throws before anything is read, the no-signal return
\* comes before the loop.
histAfterMatcher(h) ==
  IF Len(h.num) # 12 THEN h ELSE normalizeHistogramLeaves(h)

profileAfterMatcher(profile, h) ==
  IF Len(h.num) # 12 THEN profile
  ELSE IF maxBinNotPositive(normalizeHistogram(h)) THEN profile
  ELSE profileAfterLoop(profile, 0)

(***************************************************************************)
(* The histograms callers pass.                                            *)
(***************************************************************************)
Hist(seq) == [num |-> seq, den |-> 1]

ZeroBins(len) == [i \in 1..len |-> 0]

\* Histograms of at most k unit notes.
RECURSIVE NoteBins(_)
NoteBins(k) ==
  IF k = 0 THEN {ZeroBins(12)}
  ELSE LET prev == NoteBins(k - 1)
       IN  prev \cup {[b EXCEPT ![note] = @ + 1] : b \in prev, note \in 1..12}

NoteHistograms == {Hist(b) : b \in NoteBins(MaxNotes)}

\* The tested triad histogram (keyDetection.test.ts:11) on every root.
TriadBins(t) ==
  [i \in 1..12 |->
     IF i - 1 = t THEN 10
     ELSE IF i - 1 = (t + 4) % 12 THEN 6
     ELSE IF i - 1 = (t + 7) % 12 THEN 7
     ELSE 0]

TriadHistograms == {Hist(TriadBins(t)) : t \in 0..11}

\* Every bin equal.
UniformHistograms == {Hist([i \in 1..12 |-> w]) : w \in 1..MaxNotes}

\* Uniform histograms written as literals: 1 and 0.1, 0.2, ... in every bin.
MaxTenths == 4
UniformLiterals ==
  {Hist([i \in 1..12 |-> 1])} \cup
  {[num |-> [i \in 1..12 |-> k], den |-> 10] : k \in 1..MaxTenths}

\* A profile shifted down to touch zero: correlates perfectly with itself.
SeqMin(xs) == -SeqMax([i \in 1..Len(xs) |-> -xs[i]])

ProfileHistograms ==
  {Hist([i \in 1..12 |-> p.num[i] - SeqMin(p.num)]) :
     p \in {MajorProfileLiteral, MinorProfileLiteral}}

\* No bin positive: some bins negative.
NegativeHistograms == {Hist([i \in 1..12 |-> -b[i]]) : b \in NoteBins(1)}

\* One bin positive, its upper neighbour as negative: the total is 0.
CancellingHistograms ==
  {Hist([i \in 1..12 |-> IF i - 1 = t THEN 1 ELSE IF i - 1 = (t + 1) % 12 THEN -1 ELSE 0]) :
     t \in 0..11}

\* Arrays that are not 12 long.
MisshapenHistograms ==
  {Hist(<<>>), Hist([i \in 1..11 |-> 1]), Hist([i \in 1..13 |-> 1]),
   Hist(ZeroBins(11)), Hist(ZeroBins(13))}

Histograms ==
  NoteHistograms \cup TriadHistograms \cup UniformHistograms \cup ProfileHistograms
    \cup NegativeHistograms \cup CancellingHistograms \cup MisshapenHistograms

\* The histograms of the runs whose confidences are compared.
CalibrationHistograms ==
  ProfileHistograms \cup UniformHistograms
    \cup {Hist(TriadBins(t)) : t \in {0, 1}}
    \cup {Hist(ZeroBins(12)), Hist([ZeroBins(12) EXCEPT ![10] = 1])}

(***************************************************************************)
(* keyDetection.ts, the audio analysis: from a spectrum to pitch classes.  *)
(***************************************************************************)
\* The default of the fftSize option (line 124).
fftSize == 4096

\* JavaScript's a % b for b > 0: the remainder has the sign of a.
jsRemainder(a, b) == Sign(a) * (Abs(a) % b)

RECURSIVE GCD(_, _)
GCD(a, b) == IF b = 0 THEN a ELSE GCD(b, a % b)

RECURSIVE PowTen(_)
PowTen(k) == IF k = 0 THEN 1 ELSE 10 * PowTen(k - 1)

\* x to the 24th power.
BigPow24(x) ==
  LET x2 == BigMul(x, x)
      x4 == BigMul(x2, x2)
      x8 == BigMul(x4, x4)
  IN  BigMul(BigMul(x8, x8), x8)

\* For q <= p: how many times q doubles without passing p, counted from k.
RECURSIVE DoublingsWithin(_, _, _)
DoublingsWithin(q, p, k) ==
  LET q2 == BigAdd(q, q)
  IN  IF BigLess(p, q2) THEN k ELSE DoublingsWithin(q2, p, k + 1)

\* For p < q: how many times p doubles until it reaches q, counted from k.
RECURSIVE DoublingsToReach(_, _, _)
DoublingsToReach(p, q, k) ==
  LET p2 == BigAdd(p, p)
  IN  IF BigLess(p2, q) THEN DoublingsToReach(p2, q, k + 1) ELSE k + 1

\* floor(log2(p / q)) for naturals p, q > 0.
FloorLog2(p, q) ==
  IF BigLess(p, q) THEN -DoublingsToReach(p, q, 0) ELSE DoublingsWithin(q, p, 0)

\* Math.round(12 * Math.log2(n / d)) for integers n, d > 0: with
\* e = floor(24 * log2(n / d)) = floor(log2(n^24 / d^24)), the nearest
\* integer (halves upwards) is floor((e + 1) / 2).
round12Log2(n, d) ==
  LET g == GCD(n, d)
      e == FloorLog2(BigPow24(ToBig(n \div g)), BigPow24(ToBig(d \div g)))
  IN  (e + 1) \div 2

\* Dynamic range of the magnitudes the model holds: a magnitude is a
\* numerator over MagDen.
MagDen == PowTen(2)

\* Math.pow(10, db / 20) for a level that is a multiple of 20 dB, over
\* MagDen (line 183).
mag(db) == MagDen \div PowTen((-db) \div 20)

\* Lines 184-185: midi, rounded, and its pitch class.
pitchClassOf(bin, sampleRate) ==
  LET midi == 69 + round12Log2(bin * sampleRate, fftSize * 440)
  IN  (jsRemainder(midi, 12) + 12) % 12

\* Mutant of binStep: the 50-2000 Hz band is not tested.
binStepAnyFrequency(hist, entry, sampleRate) ==
  IF ~(entry.bin >= 1 /\ entry.bin < fftSize \div 2) THEN hist
  ELSE IF ~entry.finite THEN hist
  ELSE IF entry.db < -85 THEN hist
  ELSE [hist EXCEPT !.num[pitchClassOf(entry.bin, sampleRate) + 1] = @ + mag(entry.db)]

\* One pass of the bin loop (lines 173-187) for the bin an entry of the
\* spectrum describes: hist after it.
binStep(hist, entry, sampleRate) ==
  IF ~(entry.bin >= 1 /\ entry.bin < fftSize \div 2) THEN hist
  ELSE IF ~entry.finite THEN hist
  ELSE IF entry.db < -85 THEN hist
  ELSE IF entry.bin * sampleRate < 50 * fftSize
          \/ entry.bin * sampleRate > 2000 * fftSize THEN hist
  ELSE [hist EXCEPT !.num[pitchClassOf(entry.bin, sampleRate) + 1] = @ + mag(entry.db)]

\* The bin loop over a spectrum; the bins a spectrum does not list hold
\* -Infinity, which line 175 skips.
RECURSIVE binLoop(_, _, _, _)
binLoop(hist, spectrum, sampleRate, k) ==
  IF k > Len(spectrum) THEN hist
  ELSE binLoop(binStep(hist, spectrum[k], sampleRate), spectrum, sampleRate, k + 1)

\* const alpha = 0.85 (line 165).
alpha == [num |-> 17, den |-> 20]

\* Mutant of smoothLoop: the raw total is added whole.
smoothLoopUnweighted(sm, hist) ==
  [num |-> [k \in 1..12 |->
              alpha.num * sm.num[k] + alpha.den * hist.num[k] * (sm.den \div hist.den)],
   den |-> alpha.den * sm.den]

\* Mutant of smoothLoop: the two weights are exchanged.
smoothLoopSwapped(sm, hist) ==
  [num |-> [k \in 1..12 |->
              (alpha.den - alpha.num) * sm.num[k]
                + alpha.num * hist.num[k] * (sm.den \div hist.den)],
   den |-> alpha.den * sm.den]

\* Lines 190-192: smooth[pc] = alpha * smooth[pc] + (1 - alpha) * hist[pc]
\* for every pc, over the denominator alpha.den * sm.den (hist.den divides
\* sm.den).
smoothLoop(sm, hist) ==
  [num |-> [k \in 1..12 |->
              alpha.num * sm.num[k]
                + (alpha.den - alpha.num) * hist.num[k] * (sm.den \div hist.den)],
   den |-> alpha.den * sm.den]

(***************************************************************************)
(* What the platform may answer.                                           *)
(***************************************************************************)
\* HTTP statuses of the response to fetch(audioUrl).
Statuses == {200, 206, 304, 404, 500}

\* Mutant of responseOk: every response is taken.
responseOkAlways(status) == TRUE

\* Response.ok: the status is in the range 200-299.
responseOk(status) == status >= 200 /\ status <= 299

\* The AudioBuffers decodeAudioData may resolve with.
DecodedAudio == {[sampleRate |-> 44100]}
NoAudio == [sampleRate |-> 0]

Entry(bin, db) == [bin |-> bin, finite |-> TRUE, db |-> db]

\* What analyser.getFloatFrequencyData may write into freqBins, at 44100
\* samples per second and 4096 points: bin b is centred on b * 10.77 Hz.
Spectra ==
  { <<>>,                                             \* digital silence
    <<[bin |-> 41, finite |-> FALSE, db |-> 0]>>,     \* a NaN bin
    <<Entry(41, -100)>>,                              \* 441 Hz, under the -85 dB floor
    <<Entry(4, 0), Entry(186, 0)>>,                   \* 43 Hz and 2003 Hz: out of range
    <<Entry(40, -40), Entry(41, -20), Entry(42, -40)>>, \* a 440 Hz tone
    <<Entry(24, 0)>>,                                 \* 258 Hz, loud
    <<Entry(24, -20), Entry(31, -20), Entry(36, -20)>> } \* 258, 334, 388 Hz

(***************************************************************************)
(* Promises and errors.                                                    *)
(***************************************************************************)
NoError == [name |-> "", message |-> ""]
UnsupportedError ==
  [name |-> "Error", message |-> "Web Audio API not supported in this browser"]
FetchStatusError(status) ==
  [name |-> "Error", message |-> "Failed to fetch audio (" \o ToString(status) \o ")"]
\* Rejections of the platform's own promises.
NetworkError == [name |-> "TypeError", message |-> "Failed to fetch"]
BodyError == [name |-> "TypeError", message |-> "body stream failed"]
DecodeError == [name |-> "EncodingError", message |-> "Unable to decode audio data"]

Unset == [Null EXCEPT !.kind = "none"]
NoPromise == [state |-> "none", value |-> Unset, error |-> NoError]
Pending == [state |-> "pending", value |-> Unset, error |-> NoError]
Fulfilled(v) == [state |-> "fulfilled", value |-> v, error |-> NoError]
Rejected(e) == [state |-> "rejected", value |-> Unset, error |-> e]

\* A platform promise: state, and the HTTP status once fetch has fulfilled.
Platform(st, status) == [state |-> st, status |-> status]

\* Values of the promise of detectKeyFromAudioUrlWithCandidates.
NoSummary == [kind |-> "none", best |-> Unset, topCandidates |-> <<>>]
NullSummary == [kind |-> "null", best |-> Null, topCandidates |-> <<>>]
NoSummaryPromise == [state |-> "none", value |-> NoSummary, error |-> NoError]
PendingSummary == [state |-> "pending", value |-> NoSummary, error |-> NoError]

NoBins == [num |-> <<>>, den |-> 1]

\* Lines 212-220: what the facade's promise settles to once the promise p
\* it awaits has settled.
facadeSettles(p) ==
  IF p.state = "rejected"
  THEN [state |-> "rejected", value |-> NoSummary, error |-> p.error]
  ELSE IF p.value.kind = "null"
  THEN [state |-> "fulfilled", value |-> NullSummary, error |-> NoError]
  ELSE [state |-> "fulfilled",
        value |-> [kind |-> "summary", best |-> p.value,
                   topCandidates |-> topCandidatesOf(p.value)],
        error |-> NoError]

(***************************************************************************)
(* chords.ts: the chords of a key.                                         *)
(***************************************************************************)
NOTES_SHARP == <<"C", "C#", "D", "D#", "E", "F", "F#", "G", "G#", "A", "A#", "B">>

\* NOTES_SHARP.indexOf(note); -1 is the case in which noteIndex throws.
noteIndex(note) ==
  IF \E i \in 0..11 : NOTES_SHARP[i + 1] = note
  THEN CHOOSE i \in 0..11 : NOTES_SHARP[i + 1] = note
  ELSE -1

transpose(note, semitones) ==
  NOTES_SHARP[((noteIndex(note) + semitones + 1200) % 12) + 1]

\* Mutant of buildScale: the minor scale is the harmonic minor.
buildScaleHarmonicMinor(tonic, mode) ==
  LET steps == IF mode = "major" THEN <<0, 2, 4, 5, 7, 9, 11>> ELSE <<0, 2, 3, 5, 7, 8, 11>>
  IN  [k \in 1..7 |-> transpose(tonic, steps[k])]

buildScale(tonic, mode) ==
  LET steps == IF mode = "major" THEN <<0, 2, 4, 5, 7, 9, 11>> ELSE <<0, 2, 3, 5, 7, 8, 10>>
  IN  [k \in 1..7 |-> transpose(tonic, steps[k])]

diatonicTriadQuality(mode) ==
  IF mode = "major"
  THEN <<"maj", "min", "min", "maj", "maj", "min", "dim">>
  ELSE <<"min", "dim", "maj", "min", "min", "maj", "maj">>

chordName(root, quality) ==
  IF quality = "maj" THEN root
  ELSE IF quality = "min" THEN root \o "m"
  ELSE root \o "dim"

\* The degree sign of the source is written o here, the arrow of romanLine
\* ->, and the dashes of the progression names -.
ROMAN_MAJOR == <<"I", "ii", "iii", "IV", "V", "vi", "viio">>
ROMAN_MINOR == <<"i", "iio", "III", "iv", "v", "VI", "VII">>

\* Array.prototype.join over strings.
RECURSIVE joinStrings(_, _)
joinStrings(parts, sep) ==
  IF Len(parts) = 0 THEN ""
  ELSE IF Len(parts) = 1 THEN parts[1]
  ELSE parts[1] \o sep \o joinStrings(Tail(parts), sep)

\* const defs (lines 71-92).
progressionDefs ==
  << [name |-> "Pop (I-V-vi-IV)", degreesMaj |-> <<1, 5, 6, 4>>, degreesMin |-> <<1, 6, 3, 7>>],
     [name |-> "Cadence (ii-V-I)", degreesMaj |-> <<2, 5, 1>>, degreesMin |-> <<2, 5, 1>>],
     [name |-> "Rock (I-bVII-IV)", degreesMaj |-> <<1, 7, 4>>, degreesMin |-> <<1, 7, 4>>],
     [name |-> "Circle-ish (vi-ii-V-I)", degreesMaj |-> <<6, 2, 5, 1>>,
      degreesMin |-> <<6, 2, 5, 1>>] >>

NoSuggestion == [kind |-> "none", diatonicChords |-> <<>>, progressions |-> <<>>]

\* suggestProgressionsForKey(key); kind "threw" is the Error of noteIndex
\* (line 12), thrown by the first transpose of buildScale.
suggestProgressionsForKey(k) ==
  IF noteIndex(k.tonic) = -1
  THEN [NoSuggestion EXCEPT !.kind = "threw"]
  ELSE
    LET scale == buildScale(k.tonic, k.mode)
        qualities == diatonicTriadQuality(k.mode)
        roman == IF k.mode = "major" THEN ROMAN_MAJOR ELSE ROMAN_MINOR
        diatonicChords == [i \in 1..Len(scale) |->
                             [degree |-> i, roman |-> roman[i],
                              chord |-> chordName(scale[i], qualities[i])]]
        byDegree(d) == diatonicChords[d].chord
        romanLine(degs) == joinStrings([j \in 1..Len(degs) |-> roman[degs[j]]], " -> ")
        chordLine(degs) == [j \in 1..Len(degs) |-> byDegree(degs[j])]
        degrees(d) == IF k.mode = "major" THEN d.degreesMaj ELSE d.degreesMin
    IN  [kind |-> "value",
         diatonicChords |-> diatonicChords,
         progressions |-> [n \in 1..Len(progressionDefs) |->
                             [name |-> progressionDefs[n].name,
                              roman |-> romanLine(degrees(progressionDefs[n])),
                              chords |-> chordLine(degrees(progressionDefs[n]))]]]

\* The keys a caller passes: the 24 the detector can name, and two tonics
\* spelt with a flat.
Keys == [tonic : {NOTES_SHARP[i] : i \in 1..12} \cup {"Db", "Bb"}, mode : Modes]

NoKey == [tonic |-> "", mode |-> ""]

(***************************************************************************)
(* musicbrainz.ts: the search query.  A string is the sequence of its      *)
(* characters; what buildMusicBrainzQuery returns is written as text.      *)
(***************************************************************************)
UpperCase == <<"A", "B", "C", "D", "E", "F", "G", "H", "I", "J", "K", "L", "M", "N", "O", "P", "Q", "R", "S", "T", "U", "V", "W", "X", "Y", "Z">>
LowerCase == <<"a", "b", "c", "d", "e", "f", "g", "h", "i", "j", "k", "l", "m", "n", "o", "p", "q", "r", "s", "t", "u", "v", "w", "x", "y", "z">>

\* The characters \s matches, of those the inputs use.
WhiteSpace == {" ", "\t", "\n"}

\* The text of a sequence of characters.
RECURSIVE textOf(_)
textOf(s) == IF Len(s) = 0 THEN "" ELSE s[1] \o textOf(Tail(s))

\* s.replace(/\s+/g, ' ').trim()
normalizeSpaces(s) ==
  LET RECURSIVE collapse(_, _)
      collapse(i, out) ==
        IF i > Len(s) THEN out
        ELSE IF s[i] \in WhiteSpace
        THEN IF i > 1 /\ s[i - 1] \in WhiteSpace THEN collapse(i + 1, out)
             ELSE collapse(i + 1, Append(out, " "))
        ELSE collapse(i + 1, Append(out, s[i]))
      RECURSIVE trim(_)
      trim(t) ==
        IF Len(t) > 0 /\ t[1] \in WhiteSpace THEN trim(Tail(t))
        ELSE IF Len(t) > 0 /\ t[Len(t)] \in WhiteSpace THEN trim(SubSeq(t, 1, Len(t) - 1))
        ELSE t
  IN  trim(collapse(1, <<>>))

\* s.split(' ').filter(Boolean): the non-empty pieces between blanks.
splitWords(s) ==
  LET RECURSIVE split(_, _, _)
      split(i, word, out) ==
        IF i > Len(s) THEN Append(out, word)
        ELSE IF s[i] = " " THEN split(i + 1, <<>>, Append(out, word))
        ELSE split(i + 1, Append(word, s[i]), out)
  IN  SelectSeq(split(1, <<>>, <<>>), LAMBDA w : Len(w) > 0)

\* parts.join(' ')
RECURSIVE joinWords(_)
joinWords(parts) ==
  IF Len(parts) = 0 THEN <<>>
  ELSE IF Len(parts) = 1 THEN parts[1]
  ELSE parts[1] \o <<" ">> \o joinWords(Tail(parts))

titleStopWords ==
  {<<"a">>,
   <<"a", "n">>,
   <<"a", "n", "d">>,
   <<"a", "t">>,
   <<"f", "o", "r">>,
   <<"f", "r", "o", "m">>,
   <<"i", "n">>,
   <<"o", "f">>,
   <<"o", "n">>,
   <<"t", "h", "e">>,
   <<"t", "o">>,
   <<"w", "i", "t", "h">>}

toLowerCase(w) ==
  [i \in 1..Len(w) |->
     IF \E k \in 1..Len(UpperCase) : UpperCase[k] = w[i]
     THEN LowerCase[CHOOSE k \in 1..Len(UpperCase) : UpperCase[k] = w[i]]
     ELSE w[i]]

looksTitleWord(w) == toLowerCase(w) \in titleStopWords

\* /^[A-Z][\p{L}'-]*$/u on the letters A-Z and a-z (the inputs hold no
\* other letter and no typographic apostrophe).
looksNameWord(w) ==
  /\ Len(w) >= 1
  /\ \E k \in 1..Len(UpperCase) : UpperCase[k] = w[1]
  /\ \A i \in 2..Len(w) :
       \/ \E k \in 1..Len(UpperCase) : w[i] \in {UpperCase[k], LowerCase[k]}
       \/ w[i] \in {"'", "-"}

NoGuess == [kind |-> "null", title |-> <<>>, artist |-> <<>>]

\* guessTitleArtist(raw)
guessTitleArtist(r) ==
  LET s == normalizeSpaces(r)
      parts == splitWords(s)
      n == Len(parts)
      sliceTo(k) == SubSeq(parts, 1, n - k)      \* parts.slice(0, -k)
      sliceLast(k) == SubSeq(parts, n - k + 1, n) \* parts.slice(-k)
      guess(title, artist) == [kind |-> "guess", title |-> title, artist |-> artist]
      RECURSIVE fallback(_)
      fallback(artistWords) ==
        IF artistWords < 1 THEN NoGuess
        ELSE IF n <= artistWords + 1 THEN fallback(artistWords - 1)
        ELSE LET artist == joinWords(sliceLast(artistWords))
                 title == joinWords(sliceTo(artistWords))
                 artistFirstWord == parts[n - artistWords + 1]
             IN  IF artistWords >= 3 /\ looksTitleWord(artistFirstWord)
                 THEN fallback(artistWords - 1)
                 ELSE IF Len(title) >= 2 /\ Len(artist) >= 2 THEN guess(title, artist)
                 ELSE fallback(artistWords - 1)
  IN  IF n < 4 THEN NoGuess
      ELSE LET a1 == parts[n - 1]
               a2 == parts[n]
           IN  IF /\ looksNameWord(a1) /\ looksNameWord(a2)
                  /\ ~looksTitleWord(a1) /\ ~looksTitleWord(a2)
                  /\ Len(joinWords(sliceTo(2))) >= 2
               THEN guess(joinWords(sliceTo(2)), a1 \o <<" ">> \o a2)
               ELSE fallback(3)

\* buildMusicBrainzQuery(raw), as text.
buildMusicBrainzQuery(r) ==
  LET q == normalizeSpaces(r)
      guessed == guessTitleArtist(q)
  IN  IF Len(q) = 0 THEN ""
      ELSE IF guessed.kind = "guess"
      THEN "recording:\"" \o textOf(guessed.title) \o "\" AND artist:\""
             \o textOf(guessed.artist) \o "\""
      ELSE textOf(q)

\* The texts typed into the search box.
RawQueries ==
  {
    <<>>,
    <<" ", " ", " ">>,
    <<"s", "i", "n", "a", "t", "r", "a">>,
    <<" ", " ", "m", "y", " ", "w", "a", "y", " ", " ">>,
    <<"M", "y", " ", "w", "a", "y", " ", "S", "i", "n", "a", "t", "r", "a">>,
    <<"A", "d", "v", "i", "c", "e", " ", "C", "a", "v", "e", "t", "o", "w", "n">>,
    <<" ", " ", "A", "d", "v", "i", "c", "e", " ", " ", " ", "C", "a", "v", "e", "t", "o", "w", "n", " ", " ">>,
    <<"A", "d", "v", "i", "c", "e", "\t", "C", "a", "v", "e", "t", "o", "w", "n">>,
    <<"C", "a", "v", "e", "t", "o", "w", "n", " ", "A", "d", "v", "i", "c", "e">>,
    <<"H", "e", "l", "l", "o", " ", "t", "o">>,
    <<"R", "o", "y", "g", "b", "i", "v", " ", "B", "o", "a", "r", "d", "s", "-", "o", "f", "-", "C", "a", "n", "a", "d", "a">>,
    <<"M", "y", " ", "w", "a", "y", " ", "o", "f", " ", "l", "i", "f", "e", " ", "F", "r", "a", "n", "k", " ", "S", "i", "n", "a", "t", "r", "a">>,
    <<"n", "o", "s", "t", "a", "l", "g", "i", "a", " ", "i", "n", " ", "m", "y", " ", "b", "e", "d", "r", "o", "o", "m", " ", "c", "a", "v", "e", "t", "o", "w", "n">>,
    <<"L", "u", "c", "y", " ", "i", "n", " ", "t", "h", "e", " ", "s", "k", "y", " ", "B", "e", "a", "t", "l", "e", "s">>,
    <<"S", "o", "n", "g", " ", "o", "f", " ", "t", "h", "e", " ", "s", "e", "a">> }

NoQuery == [called |-> FALSE, text |-> ""]

ServicesIdle ==
  /\ key = NoKey
  /\ suggestion = NoSuggestion
  /\ raw = <<>>
  /\ mbQuery = NoQuery

(***************************************************************************)
(* persistence.ts.  A JavaScript value is the record [t, n, s, items]: its  *)
(* type tag, its number, its string, and its properties (records [k, v],   *)
(* in insertion order) or array elements.  A JSON text is the sequence of  *)
(* its tokens.                                                             *)
(***************************************************************************)
Js(t, n, s, items) == [t |-> t, n |-> n, s |-> s, items |-> items]
Undefined == Js("undefined", 0, "", <<>>)
JsNull == Js("null", 0, "", <<>>)
JsNum(n) == Js("number", n, "", <<>>)
JsStr(s) == Js("string", 0, s, <<>>)
JsObj(props) == Js("object", 0, "", props)
JsArr(items) == Js("array", 0, "", items)
Prop(k, v) == [k |-> k, v |-> v]

\* obj.k: the value of the last property named k, undefined when there is
\* none or obj is no object.
Get(obj, k) ==
  IF obj.t = "object" /\ \E i \in 1..Len(obj.items) : obj.items[i].k = k
  THEN obj.items[CHOOSE i \in 1..Len(obj.items) :
                   /\ obj.items[i].k = k
                   /\ \A j \in (i + 1)..Len(obj.items) : obj.items[j].k # k].v
  ELSE Undefined

\* typeof v
TypeOf(v) == IF v.t \in {"null", "object", "array"} THEN "object" ELSE v.t

\* !v
Falsy(v) ==
  \/ v.t \in {"undefined", "null"}
  \/ v.t = "number" /\ v.n = 0
  \/ v.t = "string" /\ v.s = ""

\* { ...a, ...b }: b's properties written over a's.
Spread(a, b) ==
  LET kept == SelectSeq(a.items, LAMBDA p : \A i \in 1..Len(b.items) : b.items[i].k # p.k)
      overwritten == [i \in 1..Len(a.items) |->
                        IF \E j \in 1..Len(b.items) : b.items[j].k = a.items[i].k
                        THEN Prop(a.items[i].k, Get(b, a.items[i].k))
                        ELSE a.items[i]]
      added == SelectSeq(b.items, LAMBDA p : \A i \in 1..Len(a.items) : a.items[i].k # p.k)
  IN  JsObj(overwritten \o added)

Quote(s) == "\"" \o s \o "\""

\* JSON.stringify(v) for a value that is not undefined: a property whose
\* value is undefined is left out, an undefined array element is null.
RECURSIVE JSONstringify(_)
JSONstringify(v) ==
  LET RECURSIVE members(_, _)
      members(ps, first) ==
        IF Len(ps) = 0 THEN <<>>
        ELSE IF ps[1].v.t = "undefined" THEN members(Tail(ps), first)
        ELSE (IF first THEN <<>> ELSE <<",">>)
               \o <<Quote(ps[1].k), ":">> \o JSONstringify(ps[1].v)
               \o members(Tail(ps), FALSE)
      RECURSIVE elements(_, _)
      elements(xs, first) ==
        IF Len(xs) = 0 THEN <<>>
        ELSE (IF first THEN <<>> ELSE <<",">>)
               \o (IF xs[1].t = "undefined" THEN <<"null">> ELSE JSONstringify(xs[1]))
               \o elements(Tail(xs), FALSE)
  IN  CASE v.t = "null" -> <<"null">>
        [] v.t = "number" -> <<ToString(v.n)>>
        [] v.t = "string" -> <<Quote(v.s)>>
        [] v.t = "object" -> <<"{">> \o members(v.items, TRUE) \o <<"}">>
        [] v.t = "array" -> <<"[">> \o elements(v.items, TRUE) \o <<"]">>

\* The number and string literals a stored text can hold.
NumberLiterals == {0, 1, 2, 18, 24, 30, 1000}
StringLiterals ==
  {"v", "savedAt", "analysisSeconds", "song", "songInfo", "lastQuery", "title", "artist",
   "source", "previewUrl", "keySignature", "timeSignature", "chords", "name", "confidence",
   "", "1", "18", "manual", "My Way of Life", "Frank Sinatra", "Advice", "Cavetown",
   "https://example.test/a.m4a", "D minor", "Dm", "My way of life Frank Sinatra"}

\* JSON.parse(text): ok is FALSE where it throws a SyntaxError.
JSONparse(text) ==
  LET Fail == [ok |-> FALSE, v |-> Undefined, rest |-> <<>>]
      IsString(tok) == \E s \in StringLiterals : Quote(s) = tok
      Unquote(tok) == CHOOSE s \in StringLiterals : Quote(s) = tok
      RECURSIVE value(_), members(_, _), elements(_, _)
      value(t) ==
        IF Len(t) = 0 THEN Fail
        ELSE IF t[1] = "null" THEN [ok |-> TRUE, v |-> JsNull, rest |-> Tail(t)]
        ELSE IF \E n \in NumberLiterals : ToString(n) = t[1]
        THEN [ok |-> TRUE,
              v |-> JsNum(CHOOSE n \in NumberLiterals : ToString(n) = t[1]),
              rest |-> Tail(t)]
        ELSE IF IsString(t[1])
        THEN [ok |-> TRUE, v |-> JsStr(Unquote(t[1])), rest |-> Tail(t)]
        ELSE IF t[1] = "{"
        THEN IF Len(t) >= 2 /\ t[2] = "}"
             THEN [ok |-> TRUE, v |-> JsObj(<<>>), rest |-> SubSeq(t, 3, Len(t))]
             ELSE members(Tail(t), <<>>)
        ELSE IF t[1] = "["
        THEN IF Len(t) >= 2 /\ t[2] = "]"
             THEN [ok |-> TRUE, v |-> JsArr(<<>>), rest |-> SubSeq(t, 3, Len(t))]
             ELSE elements(Tail(t), <<>>)
        ELSE Fail
      members(t, props) ==
        IF Len(t) < 3 \/ ~IsString(t[1]) \/ t[2] # ":" THEN Fail
        ELSE LET r == value(SubSeq(t, 3, Len(t)))
                 ps == Append(props, Prop(Unquote(t[1]), r.v))
             IN  IF ~r.ok \/ Len(r.rest) = 0 THEN Fail
                 ELSE IF r.rest[1] = "," THEN members(Tail(r.rest), ps)
                 ELSE IF r.rest[1] = "}"
                 THEN [ok |-> TRUE, v |-> JsObj(ps), rest |-> Tail(r.rest)]
                 ELSE Fail
      elements(t, xs) ==
        LET r == value(t)
        IN  IF ~r.ok \/ Len(r.rest) = 0 THEN Fail
            ELSE IF r.rest[1] = "," THEN elements(Tail(r.rest), Append(xs, r.v))
            ELSE IF r.rest[1] = "]"
            THEN [ok |-> TRUE, v |-> JsArr(Append(xs, r.v)), rest |-> Tail(r.rest)]
            ELSE Fail
      whole == value(text)
  IN  IF whole.ok /\ Len(whole.rest) = 0 THEN whole ELSE Fail

\* localStorage under STORAGE_KEY: whether the key is present, its text,
\* and which of its methods throw ("none", "setItem": the quota is
\* exhausted, "all": storage is denied).
EmptyStorage == [throws |-> "none", present |-> FALSE, text |-> <<>>]

ThrewNull == [kind |-> "threw", v |-> JsNull]
Returned(v) == [kind |-> "returned", v |-> v]

\* The try block of loadPersistedState (lines 36-52).
loadBody(store, now) ==
  IF store.throws = "all" THEN ThrewNull
  ELSE IF ~store.present \/ Len(store.text) = 0 THEN Returned(JsNull)
  ELSE LET r == JSONparse(store.text)
           parsed == r.v
       IN  IF ~r.ok THEN ThrewNull
           ELSE IF Falsy(parsed) \/ TypeOf(parsed) # "object" THEN Returned(JsNull)
           ELSE IF Get(parsed, "v") # JsNum(1) THEN Returned(JsNull)
           ELSE IF TypeOf(Get(parsed, "analysisSeconds")) # "number" THEN Returned(JsNull)
           ELSE Returned(JsObj(<<
                  Prop("v", JsNum(1)),
                  Prop("savedAt", IF TypeOf(Get(parsed, "savedAt")) = "number"
                                  THEN Get(parsed, "savedAt") ELSE JsNum(now)),
                  Prop("analysisSeconds", Get(parsed, "analysisSeconds")),
                  Prop("song", IF Get(parsed, "song").t \in {"null", "undefined"}
                               THEN JsNull ELSE Get(parsed, "song")),
                  Prop("songInfo", IF Get(parsed, "songInfo").t \in {"null", "undefined"}
                                   THEN JsNull ELSE Get(parsed, "songInfo")),
                  Prop("lastQuery", IF TypeOf(Get(parsed, "lastQuery")) = "string"
                                    THEN Get(parsed, "lastQuery") ELSE Undefined) >>))

\* Mutant of loadPersistedState: no catch.
loadUncaught(store, now) == loadBody(store, now)

\* loadPersistedState(): the try block, and the catch that returns null.
loadPersistedState(store, now) ==
  IF loadBody(store, now).kind = "threw" THEN Returned(JsNull) ELSE loadBody(store, now)

\* Mutant of payloadOf: next is not spread into the payload.
payloadWithoutNext(next, now) ==
  JsObj(<<Prop("v", JsNum(1)), Prop("savedAt", JsNum(now))>>)

\* Lines 59-63: { v: 1, savedAt: Date.now(), ...next }.
payloadOf(next, now) ==
  Spread(JsObj(<<Prop("v", JsNum(1)), Prop("savedAt", JsNum(now))>>), next)

\* savePersistedState(next): the outcome for the caller and the storage
\* after it.
savePersistedState(store, next, now) ==
  IF store.throws # "none" THEN [kind |-> "returned", store |-> store]
  ELSE [kind |-> "returned",
        store |-> [store EXCEPT !.present = TRUE,
                                !.text = JSONstringify(payloadOf(next, now))]]

\* clearPersistedState()
clearPersistedState(store) ==
  IF store.throws = "all" THEN [kind |-> "returned", store |-> store]
  ELSE [kind |-> "returned", store |-> [store EXCEPT !.present = FALSE, !.text = <<>>]]

\* The states a caller saves.
SinatraSong ==
  JsObj(<<Prop("title", JsStr("My Way of Life")), Prop("artist", JsStr("Frank Sinatra")),
          Prop("source", JsStr("manual"))>>)

AdviceSong(previewUrl) ==
  JsObj(<<Prop("title", JsStr("Advice")), Prop("artist", JsStr("Cavetown")),
          Prop("source", JsStr("manual")), Prop("previewUrl", previewUrl)>>)

SongInfoOf(keySignature, chords) ==
  JsObj(<<Prop("keySignature", keySignature), Prop("timeSignature", JsNull),
          Prop("chords", JsArr(chords))>>)

PersistedInput(secs, song, info, q) ==
  JsObj(<<Prop("analysisSeconds", JsNum(secs)), Prop("song", song), Prop("songInfo", info)>>
          \o q)

PersistedInputs ==
  { PersistedInput(18, SinatraSong,
                   SongInfoOf(JsObj(<<Prop("name", JsStr("D minor")),
                                      Prop("confidence", JsNum(1))>>),
                              <<JsStr("Dm"), JsStr("Dm")>>),
                   <<Prop("lastQuery", JsStr("My way of life Frank Sinatra"))>>),
    PersistedInput(30, JsNull, JsNull, <<>>),
    PersistedInput(24, AdviceSong(Undefined), SongInfoOf(JsNull, <<>>),
                   <<Prop("lastQuery", Undefined)>>),
    PersistedInput(18, AdviceSong(JsStr("https://example.test/a.m4a")), JsNull,
                   <<Prop("lastQuery", JsStr(""))>>),
    PersistedInput(0, JsNull, SongInfoOf(JsNull, <<JsStr("Dm")>>),
                   <<Prop("lastQuery", JsStr("18"))>>) }

\* Texts found under the key that this version did not write.
ForeignTexts ==
  { <<>>,                                                       \* the empty string
    <<"{", "not", "json">>,
    <<"{", Quote("v"), ":", "1", ",">>,
    <<"null">>, <<"0">>, <<"18">>, <<Quote("")>>, <<Quote("1")>>,
    <<"[", "]">>, <<"[", "1", ",", "18", "]">>,
    <<"{", "}">>,
    <<"{", Quote("v"), ":", "2", ",", Quote("analysisSeconds"), ":", "18", "}">>,
    <<"{", Quote("v"), ":", Quote("1"), ",", Quote("analysisSeconds"), ":", "18", "}">>,
    <<"{", Quote("v"), ":", "1", "}">>,
    <<"{", Quote("v"), ":", "1", ",", Quote("analysisSeconds"), ":", Quote("18"), "}">>,
    <<"{", Quote("v"), ":", "1", ",", Quote("analysisSeconds"), ":", "null", "}">>,
    <<"{", Quote("v"), ":", "1", ",", Quote("analysisSeconds"), ":", "24", "}">>,
    <<"{", Quote("v"), ":", "1", ",", Quote("analysisSeconds"), ":", "24", ",",
      Quote("savedAt"), ":", Quote("1"), ",", Quote("lastQuery"), ":", "18", ",",
      Quote("song"), ":", "null", "}">> }

NoLoad == [called |-> FALSE, out |-> Returned(JsNull)]
NoWrite == [op |-> "none", next |-> JsNull, kind |-> "returned"]

StoreIdle ==
  /\ localStorage = EmptyStorage
  /\ clock = 1000
  /\ loaded = NoLoad
  /\ lastWrite = NoWrite

(***************************************************************************)
(* App.tsx: the reducer, the analysis effect and fakeFetchSongInfo.        *)
(***************************************************************************)
NoSong == [title |-> "", source |-> "", previewUrl |-> "", id |-> 0]
NoKeySignature == [kind |-> "null", name |-> "", confidence |-> NumConst(0), candidates |-> <<>>]
NoSongInfo == [present |-> FALSE, keySignature |-> NoKeySignature, chords |-> <<>>]
NoMessage == ""

\* const initialState (lines 53-58).
initialState ==
  [stage |-> "idle", song |-> NoSong, songInfo |-> NoSongInfo, errorMessage |-> NoMessage]

AppAction(type) ==
  [type |-> type, song |-> NoSong, songInfo |-> NoSongInfo, message |-> NoMessage]

\* reducer(state, action) (lines 59-84).
reducer(st, action) ==
  CASE action.type = "LISTEN_START" ->
         [st EXCEPT !.stage = "listening", !.errorMessage = NoMessage]
    [] action.type = "LISTEN_STOP" -> [st EXCEPT !.stage = "idle"]
    [] action.type = "SONG_SELECTED" ->
         [st EXCEPT !.song = action.song, !.songInfo = NoSongInfo,
                    !.errorMessage = NoMessage, !.stage = "fetchingInfo"]
    [] action.type = "INFO_FETCH_START" ->
         [st EXCEPT !.stage = "fetchingInfo", !.errorMessage = NoMessage]
    [] action.type = "INFO_FETCH_SUCCESS" ->
         [st EXCEPT !.stage = "ready", !.songInfo = action.songInfo,
                    !.errorMessage = NoMessage]
    [] action.type = "INFO_FETCH_ERROR" ->
         [st EXCEPT !.stage = "error", !.errorMessage = action.message]
    [] action.type = "RESET" -> initialState
    [] OTHER -> st

\* keyCache.get(cacheKey) for the key `${previewUrl}::${secondsToAnalyze}`.
cacheKeyOf(song, seconds) == <<song.previewUrl, seconds>>
Cached(cache, cacheKey) == \E e \in cache : e.key = cacheKey
cacheGet(cache, cacheKey) == (CHOOSE e \in cache : e.key = cacheKey).value

\* Lines 112-118: the keySignature made of a summary.
keySignatureOf(summary) ==
  [kind |-> "key",
   name |-> summary.best.tonic \o " " \o summary.best.mode,
   confidence |-> summary.best.confidence,
   candidates |-> LET top2 == SubSeq(summary.topCandidates, 1,
                                      IF Len(summary.topCandidates) > 2 THEN 2
                                      ELSE Len(summary.topCandidates))
                   IN  [i \in 1..Len(top2) |->
                          [name |-> top2[i].tonic \o " " \o top2[i].mode,
                           score |-> top2[i].score]]]

\* keySignature.name.split(' ') (line 129): the pair whose parts, joined by
\* a blank, make the name; the names are those keySignatureOf makes of a
\* tonic the detector names and a mode.
splitName(name) ==
  CHOOSE p \in {TONICS_SHARP[i] : i \in 1..12} \X Modes : p[1] \o " " \o p[2] = name

\* Lines 129-130: what suggestProgressionsForKey makes of the name of a
\* keySignature that is not null.
suggestionsFor(keySignature) ==
  suggestProgressionsForKey([tonic |-> splitName(keySignature.name)[1],
                             mode |-> splitName(keySignature.name)[2]])

\* Line 130 throws: fakeFetchSongInfo is outside its try block there, so
\* its promise rejects with the Error of noteIndex.
chordStepThrows(keySignature) ==
  keySignature.kind # "null" /\ suggestionsFor(keySignature).kind = "threw"

\* Lines 126-141: the SongInfo returned for a keySignature.
songInfoOf(keySignature) ==
  [present |-> TRUE,
   keySignature |-> keySignature,
   chords |-> IF keySignature.kind = "null" THEN <<>>
              ELSE LET ps == suggestionsFor(keySignature).progressions
                       top3 == SubSeq(ps, 1, IF Len(ps) > 3 THEN 3 ELSE Len(ps))
                   IN  [i \in 1..Len(top3) |->
                          top3[i].roman \o "  (" \o joinStrings(top3[i].chords, " - ")
                            \o ")"]]

\* What the promise of detectKeyFromAudioUrlWithCandidates may settle to:
\* no tonal signal, the key of a C major triad, and the rejections of a
\* failed fetch and a failed decode.
AudioSettlements ==
  { facadeSettles(Fulfilled(detectKeyFromPitchClassHistogram(Hist(ZeroBins(12))))),
    facadeSettles(Fulfilled(detectKeyFromPitchClassHistogram(Hist(TriadBins(0))))),
    facadeSettles(Rejected(NetworkError)),
    facadeSettles(Rejected(DecodeError)) }

\* How a settlement ends: "key", "nosignal" or "failed".
outcomeOf(settled) ==
  IF settled.state = "rejected" THEN "failed"
  ELSE IF settled.value.kind = "null" THEN "nosignal" ELSE "key"

\* fakeFetchSongInfo from the await of line 108 on, the promise awaited
\* having settled: the SongInfo it returns and the cache it leaves.
fakeFetchSongInfoResumes(song, seconds, cache, settled) ==
  IF settled.state = "rejected" \/ settled.value.kind = "null"
  THEN [songInfo |-> songInfoOf(NoKeySignature), keyCache |-> cache]
  ELSE LET keySignature == keySignatureOf(settled.value)
       IN  [songInfo |-> songInfoOf(keySignature),
            keyCache |-> {e \in cache : e.key # cacheKeyOf(song, seconds)}
                           \cup {[key |-> cacheKeyOf(song, seconds),
                                  value |-> keySignature]}]

\* An effect instance that started an analysis: its closure (song,
\* seconds, cancelled) and the promise of fakeFetchSongInfo.  `awaits` is
\* "audio" while line 108 awaits, "then" once the promise is fulfilled with
\* `songInfo` and its then-callback is due, "done" after the callback.
newRun(song, seconds, cache) ==
  LET base == [song |-> song, seconds |-> seconds, cancelled |-> FALSE,
               awaits |-> "audio", outcome |-> "none", songInfo |-> NoSongInfo,
               dispatched |-> "none", produced |-> initialState]
  IN  IF song.previewUrl = ""
      THEN [base EXCEPT !.awaits = "then", !.outcome = "nopreview",
                        !.songInfo = songInfoOf(NoKeySignature)]
      ELSE IF Cached(cache, cacheKeyOf(song, seconds))
      THEN [base EXCEPT !.awaits = "then", !.outcome = "cached",
                        !.songInfo = songInfoOf(cacheGet(cache, cacheKeyOf(song, seconds)))]
      ELSE base

\* The dependency array of the effect (line 199).
depsOf(st, seconds) == <<st.stage, st.song, seconds>>

\* Mutant of commit: the cleanup leaves the cancelled flags alone.
commitWithoutCleanup(st, seconds, rs, cache, ranWith) ==
  IF depsOf(st, seconds) = ranWith THEN [state |-> st, runs |-> rs, deps |-> ranWith]
  ELSE IF st.stage # "fetchingInfo" \/ st.song = NoSong
       THEN [state |-> st, runs |-> rs, deps |-> depsOf(st, seconds)]
       ELSE [state |-> reducer(st, AppAction("INFO_FETCH_START")),
             runs |-> Append(rs, newRun(st.song, seconds, cache)),
             deps |-> depsOf(st, seconds)]

\* A commit: when the dependencies differ from those of the last run of the
\* effect, its cleanup (lines 195-198) and the effect (lines 171-194).
commit(st, seconds, rs, cache, ranWith) ==
  IF depsOf(st, seconds) = ranWith THEN [state |-> st, runs |-> rs, deps |-> ranWith]
  ELSE LET cleaned == [r \in 1..Len(rs) |-> [rs[r] EXCEPT !.cancelled = TRUE]]
       IN  IF st.stage # "fetchingInfo" \/ st.song = NoSong
           THEN [state |-> st, runs |-> cleaned, deps |-> depsOf(st, seconds)]
           ELSE [state |-> reducer(st, AppAction("INFO_FETCH_START")),
                 runs |-> Append(cleaned, newRun(st.song, seconds, cache)),
                 deps |-> depsOf(st, seconds)]

\* Mutant of thenCallback: the cancelled flag is not read.
thenCallbackUnguarded(st, run) ==
  LET action == [AppAction("INFO_FETCH_SUCCESS") EXCEPT !.songInfo = run.songInfo]
  IN  [state |-> reducer(st, action),
       run |-> [run EXCEPT !.awaits = "done", !.dispatched = action.type,
                           !.produced = reducer(st, action)]]

\* The then-callback of lines 184-188, or the catch-callback of lines
\* 189-193 when the promise of fakeFetchSongInfo rejected: the analysis
\* errors are caught inside fakeFetchSongInfo, the Error of the chord step
\* is not.
thenCallback(st, run) ==
  IF run.cancelled THEN [state |-> st, run |-> [run EXCEPT !.awaits = "done"]]
  ELSE LET action ==
             IF chordStepThrows(run.songInfo.keySignature)
             THEN [AppAction("INFO_FETCH_ERROR") EXCEPT
                     !.message = "Unsupported tonic: "
                                   \o splitName(run.songInfo.keySignature.name)[1]]
             ELSE [AppAction("INFO_FETCH_SUCCESS") EXCEPT !.songInfo = run.songInfo]
       IN  [state |-> reducer(st, action),
            run |-> [run EXCEPT !.awaits = "done", !.dispatched = action.type,
                                !.produced = reducer(st, action)]]

\* The preview URLs lookupPreviewUrl may find; "" is no preview.
PreviewUrls == {"", "https://example.test/a.m4a"}

AppIdle ==
  /\ state = initialState
  /\ analysisSeconds = 18
  /\ lookups = 0
  /\ selections = 0
  /\ deps = depsOf(initialState, 18)
  /\ runs = <<>>
  /\ keyCache = {}

(***************************************************************************)
(* The matcher, called by a test or by the audio analysis.                 *)
(***************************************************************************)
NoDetect == [called |-> FALSE, arg |-> NoProfile, out |-> Null]
NoRank == [called |-> FALSE, arg |-> NoProfile, out |-> [kind |-> "list", list |-> <<>>]]

\* No analysis has been started.
AudioIdle ==
  /\ pc = "idle"
  /\ ctx = "none"
  /\ analyser = "none"
  /\ src = "none"
  /\ fetchCalls = 0
  /\ fetchPromise = Platform("none", 0)
  /\ bufPromise = "none"
  /\ decodePromise = "none"
  /\ audio = NoAudio
  /\ frameIndex = 0
  /\ histTotal = NoBins
  /\ freqBins = <<>>
  /\ smooth = NoBins
  /\ detectPromise = NoPromise
  /\ summaryPromise = NoSummaryPromise

\* No matcher call has been made by a caller holding an array.
MatcherIdle ==
  /\ MAJOR_PROFILE = MajorProfileLiteral
  /\ MINOR_PROFILE = MinorProfileLiteral
  /\ detectOut = NoDetect
  /\ firstDetect = NoDetect
  /\ rankOut = NoRank
  /\ firstRank = NoRank
  /\ matcherRun = NoRun

Init ==
  /\ MatcherIdle
  /\ callerHist \in Histograms
  /\ AudioContextCtor = TRUE
  /\ frames = MaxFrames
  /\ AudioIdle
  /\ ServicesIdle
  /\ StoreIdle
  /\ AppIdle

\* detectKeyFromPitchClassHistogram(hist)
Detect ==
  /\ detectOut' = [called |-> TRUE, arg |-> callerHist,
                   out |-> detectKeyFromPitchClassHistogram(callerHist)]
  /\ firstDetect' = IF firstDetect.called THEN firstDetect ELSE detectOut'
  /\ callerHist' = histAfterMatcher(callerHist)
  /\ MAJOR_PROFILE' = profileAfterMatcher(MAJOR_PROFILE, callerHist)
  /\ MINOR_PROFILE' = profileAfterMatcher(MINOR_PROFILE, callerHist)
  /\ UNCHANGED <<rankOut, firstRank>>
  /\ UNCHANGED audioVars
  /\ UNCHANGED otherVars

\* rankKeyCandidatesFromPitchClassHistogram(hist)
Rank ==
  /\ rankOut' = [called |-> TRUE, arg |-> callerHist,
                 out |-> rankKeyCandidatesFromPitchClassHistogram(callerHist)]
  /\ firstRank' = IF firstRank.called THEN firstRank ELSE rankOut'
  /\ callerHist' = histAfterMatcher(callerHist)
  /\ MAJOR_PROFILE' = profileAfterMatcher(MAJOR_PROFILE, callerHist)
  /\ MINOR_PROFILE' = profileAfterMatcher(MINOR_PROFILE, callerHist)
  /\ UNCHANGED <<detectOut, firstDetect>>
  /\ UNCHANGED audioVars
  /\ UNCHANGED otherVars

Next == Detect \/ Rank

Spec == Init /\ [][Next]_vars

\* The caller fills its array with another histogram.
Refill ==
  /\ callerHist' \in CalibrationHistograms \ {callerHist}
  /\ UNCHANGED <<MAJOR_PROFILE, MINOR_PROFILE, detectOut, firstDetect, rankOut, firstRank>>
  /\ UNCHANGED audioVars
  /\ UNCHANGED otherVars

InitConfidence ==
  /\ MatcherIdle
  /\ callerHist \in CalibrationHistograms
  /\ AudioContextCtor = TRUE
  /\ frames = MaxFrames
  /\ AudioIdle
  /\ ServicesIdle
  /\ StoreIdle
  /\ AppIdle

NextConfidence == Detect \/ Refill

SpecConfidence == InitConfidence /\ [][NextConfidence]_vars

(***************************************************************************)
(* The matcher on doubles: a call runs the statements before the loop,     *)
(* then one pass of the loop at a time; the last pass returns.             *)
(***************************************************************************)
InitDouble ==
  /\ MatcherIdle
  /\ callerHist \in UniformLiterals
  /\ AudioContextCtor = TRUE
  /\ frames = MaxFrames
  /\ AudioIdle
  /\ ServicesIdle
  /\ StoreIdle
  /\ AppIdle

\* No matcher call on doubles is between its entry and its return.
NotRunning == matcherRun.fn = "none" \/ matcherRun.out # NoResult

\* detectKeyFromPitchClassHistogram(hist) is called.
CallDetect ==
  /\ NotRunning
  /\ matcherRun' = enterDouble("detect", doublesOf(callerHist))
  /\ UNCHANGED <<matcherVars, audioVars, serviceVars, storeVars, appVars>>

\* One pass of its loop; after the twelfth, lines 83-92.
DetectPass ==
  /\ matcherRun.fn = "detect"
  /\ matcherRun.out = NoResult
  /\ \E best \in {detectStepDouble(matcherRun.best, matcherRun.h, matcherRun.tonicIndex)} :
       LET next == matcherRun.tonicIndex + 1
       IN  matcherRun' =
           [matcherRun EXCEPT
              !.best = best,
              !.tonicIndex = next,
              !.out = IF next < 12 THEN NoResult
                      ELSE [kind |-> "key",
                            tonic |-> TONICS_SHARP[best.tonicIndex + 1],
                            mode |-> best.mode,
                            confidence |-> confidenceDouble(best.score),
                            profile |-> matcherRun.h]]
  /\ UNCHANGED <<matcherVars, audioVars, serviceVars, storeVars, appVars>>

\* rankKeyCandidatesFromPitchClassHistogram(hist) is called.
CallRank ==
  /\ NotRunning
  /\ matcherRun' = enterDouble("rank", doublesOf(callerHist))
  /\ UNCHANGED <<matcherVars, audioVars, serviceVars, storeVars, appVars>>

\* One pass of its loop; after the twelfth, the sort and the return.
RankPass ==
  /\ matcherRun.fn = "rank"
  /\ matcherRun.out = NoResult
  /\ \E pushed \in {matcherRun.candidates \o pushedDouble(matcherRun.h, matcherRun.tonicIndex)} :
       LET next == matcherRun.tonicIndex + 1
       IN  matcherRun' =
           [matcherRun EXCEPT
              !.candidates = pushed,
              !.tonicIndex = next,
              !.out = IF next < 12 THEN NoResult
                      ELSE [kind |-> "list", list |-> sortDouble(pushed)]]
  /\ UNCHANGED <<matcherVars, audioVars, serviceVars, storeVars, appVars>>

NextDouble == CallDetect \/ DetectPass \/ CallRank \/ RankPass

SpecDouble == InitDouble /\ [][NextDouble]_vars

(***************************************************************************)
(* The audio analysis: detectKeyFromAudioUrl runs from one await to the    *)
(* next; each action below is one such stretch of it.                      *)
(***************************************************************************)
InitAudio ==
  /\ MatcherIdle
  /\ callerHist = Hist(ZeroBins(12))
  /\ AudioContextCtor \in BOOLEAN
  /\ frames \in 0..MaxFrames
  /\ AudioIdle
  /\ ServicesIdle
  /\ StoreIdle
  /\ AppIdle

\* A caller calls detectKeyFromAudioUrl, itself or through
\* detectKeyFromAudioUrlWithCandidates (`facade`: line 212, which then
\* awaits it).  Lines 127-135: the capability check, the context, the fetch.
Call ==
  /\ pc = "idle"
  /\ detectPromise.state = "none"
  /\ \E facade \in BOOLEAN :
       summaryPromise' = IF facade THEN PendingSummary ELSE summaryPromise
  /\ IF ~AudioContextCtor
     THEN /\ detectPromise' = Rejected(UnsupportedError)
          /\ pc' = "done"
          /\ UNCHANGED <<ctx, fetchCalls, fetchPromise>>
     ELSE /\ ctx' = "running"
          /\ fetchCalls' = fetchCalls + 1
          /\ fetchPromise' = Platform("pending", 0)
          /\ detectPromise' = Pending
          /\ pc' = "fetch"
  /\ UNCHANGED <<AudioContextCtor, frames, analyser, src, bufPromise, decodePromise,
                 audio, frameIndex, histTotal, freqBins, smooth>>
  /\ UNCHANGED matcherVars
  /\ UNCHANGED otherVars

\* fetch fulfils with a response: lines 135-137.
FetchFulfils ==
  /\ pc = "fetch"
  /\ \E status \in Statuses :
       /\ fetchPromise' = Platform("fulfilled", status)
       /\ IF ~responseOk(status)
          THEN /\ detectPromise' = Rejected(FetchStatusError(status))
               /\ pc' = "done"
               /\ UNCHANGED bufPromise
          ELSE /\ bufPromise' = "pending"
               /\ pc' = "arrayBuffer"
               /\ UNCHANGED detectPromise
  /\ UNCHANGED <<AudioContextCtor, frames, ctx, analyser, src, fetchCalls, decodePromise,
                 audio, frameIndex, histTotal, freqBins, smooth, summaryPromise>>
  /\ UNCHANGED matcherVars
  /\ UNCHANGED otherVars

\* fetch rejects (network failure, CORS): the await of line 135 throws.
FetchRejects ==
  /\ pc = "fetch"
  /\ fetchPromise' = Platform("rejected", 0)
  /\ detectPromise' = Rejected(NetworkError)
  /\ pc' = "done"
  /\ UNCHANGED <<AudioContextCtor, frames, ctx, analyser, src, fetchCalls, bufPromise,
                 decodePromise, audio, frameIndex, histTotal, freqBins, smooth, summaryPromise>>
  /\ UNCHANGED matcherVars
  /\ UNCHANGED otherVars

\* res.arrayBuffer() fulfils: line 138 calls ctx.decodeAudioData(buf).
BodyFulfils ==
  /\ pc = "arrayBuffer"
  /\ bufPromise' = "fulfilled"
  /\ decodePromise' = "pending"
  /\ pc' = "decode"
  /\ UNCHANGED <<AudioContextCtor, frames, ctx, analyser, src, fetchCalls, fetchPromise,
                 audio, frameIndex, histTotal, freqBins, smooth, detectPromise, summaryPromise>>
  /\ UNCHANGED matcherVars
  /\ UNCHANGED otherVars

\* res.arrayBuffer() rejects: the await of line 137 throws.
BodyRejects ==
  /\ pc = "arrayBuffer"
  /\ bufPromise' = "rejected"
  /\ detectPromise' = Rejected(BodyError)
  /\ pc' = "done"
  /\ UNCHANGED <<AudioContextCtor, frames, ctx, analyser, src, fetchCalls, fetchPromise,
                 decodePromise, audio, frameIndex, histTotal, freqBins, smooth, summaryPromise>>
  /\ UNCHANGED matcherVars
  /\ UNCHANGED otherVars

\* Lines 195-198 once the loop condition i < frames fails; otherwise the
\* timer of line 169 is set.
LoopOrTeardown(i) ==
  IF i < frames
  THEN /\ pc' = "timer"
       /\ src' = "started"
       /\ analyser' = "connected"
       /\ ctx' = ctx
  ELSE /\ pc' = "close"
       /\ src' = "disconnected"
       /\ analyser' = "disconnected"
       /\ ctx' = "closing"

\* decodeAudioData fulfils: lines 140-168, up to the first timer.
DecodeFulfils ==
  /\ pc = "decode"
  /\ decodePromise' = "fulfilled"
  /\ \E a \in DecodedAudio : audio' = a
  /\ histTotal' = [num |-> ZeroBins(12), den |-> MagDen]
  /\ freqBins' = <<>>
  /\ smooth' = [num |-> ZeroBins(12), den |-> MagDen]
  /\ frameIndex' = 0
  /\ LoopOrTeardown(0)
  /\ UNCHANGED <<AudioContextCtor, frames, fetchCalls, fetchPromise, bufPromise,
                 detectPromise, summaryPromise>>
  /\ UNCHANGED matcherVars
  /\ UNCHANGED otherVars

\* decodeAudioData rejects: the await of line 138 throws.
DecodeRejects ==
  /\ pc = "decode"
  /\ decodePromise' = "rejected"
  /\ detectPromise' = Rejected(DecodeError)
  /\ pc' = "done"
  /\ UNCHANGED <<AudioContextCtor, frames, ctx, analyser, src, fetchCalls, fetchPromise,
                 bufPromise, audio, frameIndex, histTotal, freqBins, smooth, summaryPromise>>
  /\ UNCHANGED matcherVars
  /\ UNCHANGED otherVars

\* The timer of line 169 fires: one frame (lines 170-192), then the loop
\* test.
TimerFires ==
  /\ pc = "timer"
  /\ \E spectrum \in Spectra :
       /\ histTotal' = binLoop(histTotal, spectrum, audio.sampleRate, 1)
       /\ smooth' = smoothLoop(smooth, histTotal')
       /\ freqBins' = Append(freqBins, spectrum)
  /\ frameIndex' = frameIndex + 1
  /\ LoopOrTeardown(frameIndex + 1)
  /\ UNCHANGED <<AudioContextCtor, frames, fetchCalls, fetchPromise, bufPromise,
                 decodePromise, audio, detectPromise, summaryPromise>>
  /\ UNCHANGED matcherVars
  /\ UNCHANGED otherVars

\* ctx.close() fulfils: line 200 returns what the matcher makes of smooth.
CloseFulfils ==
  /\ pc = "close"
  /\ ctx' = "closed"
  /\ LET result == detectKeyFromPitchClassHistogram(smooth)
     IN  detectPromise' = IF result.kind = "threw"
                          THEN Rejected([name |-> "Error",
                                         message |-> "Pitch class histogram must have length 12"])
                          ELSE Fulfilled(result)
  /\ smooth' = histAfterMatcher(smooth)
  /\ MAJOR_PROFILE' = profileAfterMatcher(MAJOR_PROFILE, smooth)
  /\ MINOR_PROFILE' = profileAfterMatcher(MINOR_PROFILE, smooth)
  /\ pc' = "done"
  /\ UNCHANGED <<AudioContextCtor, frames, analyser, src, fetchCalls, fetchPromise,
                 bufPromise, decodePromise, audio, frameIndex, histTotal, freqBins, summaryPromise>>
  /\ UNCHANGED <<callerHist, detectOut, firstDetect, rankOut, firstRank>>
  /\ UNCHANGED otherVars

\* The await of line 212 resumes detectKeyFromAudioUrlWithCandidates.
FacadeResumes ==
  /\ summaryPromise.state = "pending"
  /\ detectPromise.state \in {"fulfilled", "rejected"}
  /\ summaryPromise' = facadeSettles(detectPromise)
  /\ MAJOR_PROFILE' = IF detectPromise.state = "fulfilled" /\ detectPromise.value.kind = "key"
                      THEN profileAfterMatcher(MAJOR_PROFILE, detectPromise.value.profile)
                      ELSE MAJOR_PROFILE
  /\ MINOR_PROFILE' = IF detectPromise.state = "fulfilled" /\ detectPromise.value.kind = "key"
                      THEN profileAfterMatcher(MINOR_PROFILE, detectPromise.value.profile)
                      ELSE MINOR_PROFILE
  /\ UNCHANGED <<AudioContextCtor, frames, pc, ctx, analyser, src, fetchCalls, fetchPromise,
                 bufPromise, decodePromise, audio, frameIndex, histTotal, freqBins, smooth,
                 detectPromise>>
  /\ UNCHANGED <<callerHist, detectOut, firstDetect, rankOut, firstRank>>
  /\ UNCHANGED otherVars

NextAudio ==
  \/ Call
  \/ FetchFulfils
  \/ FetchRejects
  \/ BodyFulfils
  \/ BodyRejects
  \/ DecodeFulfils
  \/ DecodeRejects
  \/ TimerFires
  \/ CloseFulfils
  \/ FacadeResumes

SpecAudio == InitAudio /\ [][NextAudio]_vars

(***************************************************************************)
(* The chord and query helpers, called on one input each.                  *)
(***************************************************************************)
InitServices ==
  /\ MatcherIdle
  /\ callerHist = Hist(ZeroBins(12))
  /\ AudioContextCtor = TRUE
  /\ frames = 0
  /\ AudioIdle
  /\ key \in Keys
  /\ suggestion = NoSuggestion
  /\ raw \in RawQueries
  /\ mbQuery = NoQuery
  /\ StoreIdle
  /\ AppIdle

\* suggestProgressionsForKey(key)
SuggestProgressions ==
  /\ suggestion' = suggestProgressionsForKey(key)
  /\ UNCHANGED <<key, raw, mbQuery>>
  /\ UNCHANGED exceptServices

\* buildMusicBrainzQuery(raw)
BuildQuery ==
  /\ mbQuery' = [called |-> TRUE, text |-> buildMusicBrainzQuery(raw)]
  /\ UNCHANGED <<key, suggestion, raw>>
  /\ UNCHANGED exceptServices

NextServices == SuggestProgressions \/ BuildQuery

SpecServices == InitServices /\ [][NextServices]_vars

(***************************************************************************)
(* The persisted state: calls of load, save and clear on a localStorage    *)
(* that other code may write and that may start to fail.                   *)
(***************************************************************************)
InitStore ==
  /\ MatcherIdle
  /\ callerHist = Hist(ZeroBins(12))
  /\ AudioContextCtor = TRUE
  /\ frames = 0
  /\ AudioIdle
  /\ ServicesIdle
  /\ StoreIdle
  /\ AppIdle

\* loadPersistedState()
Load ==
  /\ loaded' = [called |-> TRUE, out |-> loadPersistedState(localStorage, clock)]
  /\ UNCHANGED <<localStorage, clock, lastWrite>>
  /\ UNCHANGED exceptStore

\* savePersistedState(next)
Save ==
  /\ \E next \in PersistedInputs :
       LET done == savePersistedState(localStorage, next, clock)
       IN  /\ localStorage' = done.store
           /\ lastWrite' = [op |-> "save", next |-> next, kind |-> done.kind]
  /\ loaded' = NoLoad
  /\ UNCHANGED clock
  /\ UNCHANGED exceptStore

\* clearPersistedState()
Clear ==
  /\ LET done == clearPersistedState(localStorage)
     IN  /\ localStorage' = done.store
         /\ lastWrite' = [op |-> "clear", next |-> JsNull, kind |-> done.kind]
  /\ loaded' = NoLoad
  /\ UNCHANGED clock
  /\ UNCHANGED exceptStore

\* Other code, or the user, writes the key.
ForeignWrite ==
  /\ localStorage.throws = "none"
  /\ \E text \in ForeignTexts :
       localStorage' = [localStorage EXCEPT !.present = TRUE, !.text = text]
  /\ lastWrite' = [op |-> "foreign", next |-> JsNull, kind |-> "returned"]
  /\ loaded' = NoLoad
  /\ UNCHANGED clock
  /\ UNCHANGED exceptStore

\* The quota is exhausted, or the browser starts to deny storage.
StorageBreaks ==
  /\ \E mode \in {"setItem", "all"} :
       /\ localStorage.throws # mode
       /\ localStorage.throws # "all"
       /\ localStorage' = [localStorage EXCEPT !.throws = mode]
  /\ loaded' = NoLoad
  /\ UNCHANGED <<clock, lastWrite>>
  /\ UNCHANGED exceptStore

NextStore == Load \/ Save \/ Clear \/ ForeignWrite \/ StorageBreaks

SpecStore == InitStore /\ [][NextStore]_vars

(***************************************************************************)
(* The App: what the user does, and what React and the promises do.  A     *)
(* dispatch made in a click handler is rendered and committed before the   *)
(* handler returns; a dispatch made after an await, or in a promise        *)
(* callback, is committed by a later Commit.                               *)
(***************************************************************************)
InitApp ==
  /\ MatcherIdle
  /\ callerHist = Hist(ZeroBins(12))
  /\ AudioContextCtor = TRUE
  /\ frames = 0
  /\ AudioIdle
  /\ ServicesIdle
  /\ StoreIdle
  /\ AppIdle

\* What the user sees is what was committed.
Committed == deps = depsOf(state, analysisSeconds)

\* dispatch(action) in a click handler, with analysisSeconds set to
\* `seconds`, and the commit that follows.
Clicked(action, seconds) ==
  LET c == commit(reducer(state, action), seconds, runs, keyCache, deps)
  IN  /\ state' = c.state
      /\ runs' = c.runs
      /\ deps' = c.deps
      /\ analysisSeconds' = seconds

\* "Start listening" (line 242).
ListenStart ==
  /\ Committed
  /\ state.stage = "idle"
  /\ Clicked(AppAction("LISTEN_START"), analysisSeconds)
  /\ UNCHANGED <<lookups, selections, keyCache>>
  /\ UNCHANGED exceptApp

\* "Stop" (line 334).
ListenStop ==
  /\ Committed
  /\ state.stage = "listening"
  /\ Clicked(AppAction("LISTEN_STOP"), analysisSeconds)
  /\ UNCHANGED <<lookups, selections, keyCache>>
  /\ UNCHANGED exceptApp

\* "Simulate match" (lines 359-367): a song without a preview.
SimulateMatch ==
  /\ Committed
  /\ state.stage = "listening"
  /\ lookups + selections < MaxSelections
  /\ Len(runs) < MaxRuns
  /\ Clicked([AppAction("SONG_SELECTED") EXCEPT
                !.song = [title |-> "Recognized Song", source |-> "recognition",
                          previewUrl |-> "", id |-> selections + 1]],
             analysisSeconds)
  /\ selections' = selections + 1
  /\ UNCHANGED <<lookups, keyCache>>
  /\ UNCHANGED exceptApp

\* A search result is clicked (lines 291-296): lookupPreviewUrl is awaited.
ClickResult ==
  /\ Committed
  /\ state.stage = "idle"
  /\ lookups + selections < MaxSelections
  /\ lookups' = lookups + 1
  /\ UNCHANGED <<state, analysisSeconds, selections, deps, runs, keyCache>>
  /\ UNCHANGED exceptApp

\* lookupPreviewUrl settles and the handler dispatches SONG_SELECTED (lines
\* 297-316).
LookupSettles ==
  /\ lookups > 0
  /\ Len(runs) < MaxRuns
  /\ \E url \in PreviewUrls :
       state' = reducer(state,
                        [AppAction("SONG_SELECTED") EXCEPT
                           !.song = [title |-> "Advice", source |-> "manual",
                                     previewUrl |-> url, id |-> selections + 1]])
  /\ lookups' = lookups - 1
  /\ selections' = selections + 1
  /\ UNCHANGED <<analysisSeconds, deps, runs, keyCache>>
  /\ UNCHANGED exceptApp

\* React renders and commits the state dispatched since the last commit.
Commit ==
  /\ ~Committed
  /\ LET c == commit(state, analysisSeconds, runs, keyCache, deps)
     IN  /\ state' = c.state
         /\ runs' = c.runs
         /\ deps' = c.deps
  /\ UNCHANGED <<analysisSeconds, lookups, selections, keyCache>>
  /\ UNCHANGED exceptApp

\* "Back" (line 232) and "Start over" (line 521).
Reset ==
  /\ Committed
  /\ state.stage # "idle"
  /\ Clicked(AppAction("RESET"), analysisSeconds)
  /\ UNCHANGED <<lookups, selections, keyCache>>
  /\ UNCHANGED exceptApp

\* The buttons of the ready stage are there (line 427).
ReadyShown ==
  /\ Committed
  /\ state.stage = "ready"
  /\ state.song # NoSong
  /\ state.songInfo.present
  /\ Len(runs) < MaxRuns

\* "Try again" (line 486).
TryAgain ==
  /\ ReadyShown
  /\ Clicked(AppAction("INFO_FETCH_START"), analysisSeconds)
  /\ UNCHANGED <<lookups, selections, keyCache>>
  /\ UNCHANGED exceptApp

\* "Analyze longer (+6s)" (lines 492-496).
AnalyzeLonger ==
  /\ ReadyShown
  /\ analysisSeconds < 30
  /\ Clicked(AppAction("INFO_FETCH_START"),
             IF analysisSeconds + 6 > 30 THEN 30 ELSE analysisSeconds + 6)
  /\ UNCHANGED <<lookups, selections, keyCache>>
  /\ UNCHANGED exceptApp

\* "Reset length" (lines 503-507).
ResetLength ==
  /\ ReadyShown
  /\ analysisSeconds # 18
  /\ Clicked(AppAction("INFO_FETCH_START"), 18)
  /\ UNCHANGED <<lookups, selections, keyCache>>
  /\ UNCHANGED exceptApp

\* The promise run r waits for has settled with `settled`:
\* fakeFetchSongInfo returns (if it was awaiting the analysis, line 108)
\* and the then-callback runs.
Settles(r, settled) ==
  LET resumed == fakeFetchSongInfoResumes(runs[r].song, runs[r].seconds,
                                          keyCache, settled)
      returned == IF runs[r].awaits = "then" THEN runs[r]
                  ELSE [runs[r] EXCEPT !.awaits = "then",
                                       !.outcome = outcomeOf(settled),
                                       !.songInfo = resumed.songInfo]
      called == thenCallback(state, returned)
  IN  /\ keyCache' = IF runs[r].awaits = "then" THEN keyCache
                     ELSE resumed.keyCache
      /\ state' = called.state
      /\ runs' = [runs EXCEPT ![r] = called.run]

\* The promise a run waits for settles.
RunSettles ==
  /\ \E r \in 1..Len(runs) :
       /\ runs[r].awaits \in {"audio", "then"}
       /\ \E settled \in AudioSettlements : Settles(r, settled)
  /\ UNCHANGED <<analysisSeconds, lookups, selections, deps>>
  /\ UNCHANGED exceptApp

NextApp ==
  \/ ListenStart
  \/ ListenStop
  \/ SimulateMatch
  \/ ClickResult
  \/ LookupSettles
  \/ Commit
  \/ Reset
  \/ TryAgain
  \/ AnalyzeLonger
  \/ ResetLength
  \/ RunSettles

SpecApp == InitApp /\ [][NextApp]_vars

(***************************************************************************)
(* One analysis seen from both sides: the effect has started a run on a     *)
(* song with a preview, detectKeyFromAudioUrlWithCandidates has been       *)
(* called and awaits fetch (lines 127-135); the audio run goes on as in    *)
(* SpecAudio, and the user may press Back.                                 *)
(***************************************************************************)
SelectedSong ==
  [title |-> "Advice", source |-> "manual", previewUrl |-> "https://example.test/a.m4a",
   id |-> 1]

InitCancel ==
  /\ MatcherIdle
  /\ callerHist = Hist(ZeroBins(12))
  /\ ServicesIdle
  /\ StoreIdle
  /\ AudioContextCtor = TRUE
  /\ frames \in 0..MaxFrames
  /\ pc = "fetch"
  /\ ctx = "running"
  /\ analyser = "none"
  /\ src = "none"
  /\ fetchCalls = 1
  /\ fetchPromise = Platform("pending", 0)
  /\ bufPromise = "none"
  /\ decodePromise = "none"
  /\ audio = NoAudio
  /\ frameIndex = 0
  /\ histTotal = NoBins
  /\ freqBins = <<>>
  /\ smooth = NoBins
  /\ detectPromise = Pending
  /\ summaryPromise = PendingSummary
  /\ state = reducer(initialState, [AppAction("SONG_SELECTED") EXCEPT !.song = SelectedSong])
  /\ analysisSeconds = 18
  /\ lookups = 0
  /\ selections = 1
  /\ deps = depsOf(state, analysisSeconds)
  /\ runs = <<newRun(SelectedSong, 18, {})>>
  /\ keyCache = {}

NextCancel ==
  \/ FetchFulfils
  \/ FetchRejects
  \/ BodyFulfils
  \/ BodyRejects
  \/ DecodeFulfils
  \/ DecodeRejects
  \/ TimerFires
  \/ CloseFulfils
  \/ FacadeResumes
  \/ Reset

SpecCancel == InitCancel /\ [][NextCancel]_vars

(***************************************************************************)
(* Properties.                                                             *)
(***************************************************************************)
\* A 12-bin histogram with no negative bin and at least one positive bin.
HasSignal(h) ==
  /\ Len(h.num) = 12
  /\ \A i \in 1..12 : h.num[i] >= 0
  /\ \E i \in 1..12 : h.num[i] > 0

\* A 12-bin histogram whose maximum bin is <= 0.
NoSignal(h) == Len(h.num) = 12 /\ \A i \in 1..12 : h.num[i] <= 0

TonicIndex(name) == CHOOSE t \in 0..11 : TONICS_SHARP[t + 1] = name

\* The Pearson correlation of the bins x with a profile read from its index
\* t on, written out from the definition (the scale of x cancels).
PearsonAt(x, p, t) ==
  LET y == [i \in 1..12 |-> p[((i - 1 + t) % 12) + 1]]
      sx == SeqSum(x)
      sy == SeqSum(y)
      dx == [i \in 1..12 |-> 12 * x[i] - sx]
      dy == [i \in 1..12 |-> 12 * y[i] - sy]
      sxy == WideDot(dx, dy)
      sxx == WideDot(dx, dx)
      syy == WideDot(dy, dy)
  IN  IF sxx.sgn = 0 \/ syy.sgn = 0 \/ sxy.sgn = 0 THEN ZeroScore
      ELSE [sgn |-> sxy.sgn, num |-> sxy.mag, aa |-> sxx.mag, bb |-> syy.mag]

LiteralOf(mode) == IF mode = "major" THEN MajorProfileLiteral ELSE MinorProfileLiteral

\* The score of candidate (t, mode) for the bins x, and whether it is the
\* largest of the 24.
CandidateScore(x, t, mode) == PearsonAt(x, LiteralOf(mode).num, t)

IsMaximumScore(x, s) ==
  \A t \in 0..11 : \A m \in Modes : ScoreGeq(s, CandidateScore(x, t, m))

\* The score of the key a detection result names.
NamedScore(call) ==
  CandidateScore(call.arg.num, TonicIndex(call.out.tonic), call.out.mode)

\* C1: on a histogram with a positive bin the detected (tonic, mode) is a
\* candidate whose correlation is the maximum of the 24 correlations, and
\* the confidence is (that maximum + 1) / 2.
C1_BestIsMaximum ==
  (detectOut.called /\ HasSignal(detectOut.arg)) =>
     /\ detectOut.out.kind = "key"
     /\ IsMaximumScore(detectOut.arg.num, NamedScore(detectOut))
     /\ NumEq(detectOut.out.confidence,
              [c |-> 1, s |-> NamedScore(detectOut), d |-> 2])

C1_Witness ==
  /\ detectOut.called
  /\ HasSignal(detectOut.arg)
  /\ detectOut.out.kind = "key"
  /\ detectOut.out.mode = "minor"
  /\ detectOut.out.tonic # "C"

\* C2: a 12-bin histogram whose maximum bin is <= 0 gives null and the
\* empty list, without a throw; a non-negative one with a positive bin
\* gives a key and a non-empty list; the two functions agree on no-signal.
C2_NoSignalAgreement ==
  /\ (detectOut.called /\ NoSignal(detectOut.arg)) => detectOut.out.kind = "null"
  /\ (rankOut.called /\ NoSignal(rankOut.arg)) =>
        rankOut.out = [kind |-> "list", list |-> <<>>]
  /\ (detectOut.called /\ HasSignal(detectOut.arg)) => detectOut.out.kind = "key"
  /\ (rankOut.called /\ HasSignal(rankOut.arg)) =>
        (rankOut.out.kind = "list" /\ Len(rankOut.out.list) > 0)
  /\ (detectOut.called /\ rankOut.called /\ detectOut.arg = rankOut.arg
        /\ Len(detectOut.arg.num) = 12) =>
        (detectOut.out.kind = "null" <=> rankOut.out.list = <<>>)

C2_Witness ==
  /\ detectOut.called
  /\ rankOut.called
  /\ detectOut.arg = Hist(ZeroBins(12))
  /\ rankOut.arg = Hist(ZeroBins(12))
  /\ detectOut.out.kind = "null"
  /\ rankOut.out.list = <<>>

NumHalfConst == [c |-> 1, s |-> ZeroScore, d |-> 2]
NumTwoFifths == [c |-> 2, s |-> ZeroScore, d |-> 5]

\* C4: the histogram with weight 10 on t, 6 on t + 4 and 7 on t + 7 is
\* detected as the major key named by pitch class t, with confidence > 0.5.
C4_TriadIsItsMajorKey ==
  \A t \in 0..11 :
    (detectOut.called /\ detectOut.arg = Hist(TriadBins(t))) =>
       /\ detectOut.out.kind = "key"
       /\ detectOut.out.tonic = TONICS_SHARP[t + 1]
       /\ detectOut.out.mode = "major"
       /\ NumLt(NumHalfConst, detectOut.out.confidence)

\* The total and the smoothed vector hold a signal in pitch class 9 only,
\* every frame sampled so far having been the 440 Hz tone of Spectra.
OnlyToneA ==
  /\ frameIndex >= 1
  /\ histTotal.num = [k \in 1..12 |-> IF k = 10 THEN 12 * frameIndex ELSE 0]

\* C5: for audio holding only a sustained 440 Hz tone the largest bin of the
\* accumulated histogram is pitch class 9 and the analysis resolves to a
\* key of tonic "A" with confidence > 0.4: the matcher, handed that
\* histogram whose only positive bin is index 9, yields tonic "A".
C5_ToneAIsA ==
  (detectPromise.state = "fulfilled" /\ OnlyToneA) =>
     /\ \A k \in 1..12 : k # 10 => histTotal.num[k] < histTotal.num[10]
     /\ \A k \in 1..12 : (smooth.num[k] > 0) = (k = 10)
     /\ detectPromise.value.kind = "key"
     /\ detectPromise.value.tonic = "A"
     /\ NumLt(NumTwoFifths, detectPromise.value.confidence)

\* C5 at the matcher level, for a caller's array: a histogram whose only
\* positive bin is index 9 is detected with tonic "A".
C5_OnlyBinNineIsA ==
  (detectOut.called /\ HasSignal(detectOut.arg)
     /\ \A i \in 1..12 : (detectOut.arg.num[i] > 0 <=> i = 10)) =>
     /\ detectOut.out.kind = "key"
     /\ detectOut.out.tonic = "A"

\* The place of a candidate in the push order: ascending tonic index, major
\* before minor.
EnumIndex(c) == 2 * TonicIndex(c.tonic) + (IF c.mode = "major" THEN 0 ELSE 1)

\* C6: the ranking of a histogram with a positive bin holds 24 candidates,
\* one for each (tonic, mode), in descending score, exact ties in push order.
C6_RankingIsStableDescending ==
  (rankOut.called /\ HasSignal(rankOut.arg)) =>
     LET list == rankOut.out.list
     IN  /\ rankOut.out.kind = "list"
         /\ Len(list) = 24
         /\ {EnumIndex(list[i]) : i \in 1..Len(list)} = 0..23
         /\ \A i \in 1..(Len(list) - 1) :
              /\ ScoreGeq(list[i].score, list[i + 1].score)
              /\ ScoreEq(list[i].score, list[i + 1].score) =>
                    EnumIndex(list[i]) < EnumIndex(list[i + 1])
         /\ \A i \in 1..Len(list) :
              list[i].score
                = CandidateScore(normalizeHistogram(rankOut.arg).num,
                                 TonicIndex(list[i].tonic), list[i].mode)

C6_Witness ==
  /\ rankOut.called
  /\ HasSignal(rankOut.arg)
  /\ Len(rankOut.out.list) = 24
  /\ \E i \in 1..23 :
       /\ ScoreEq(rankOut.out.list[i].score, rankOut.out.list[i + 1].score)
       /\ rankOut.out.list[i].score # ZeroScore
  /\ \E i \in 1..23 :
       ScoreGt(rankOut.out.list[i].score, rankOut.out.list[i + 1].score)

\* C7: both functions throw on every histogram whose length is not 12, and
\* return nothing made from it.
C7_WrongLengthThrows ==
  /\ (detectOut.called /\ Len(detectOut.arg.num) # 12) => detectOut.out = Threw
  /\ (rankOut.called /\ Len(rankOut.arg.num) # 12) => rankOut.out = ThrewList
  /\ (detectOut.called /\ Len(detectOut.arg.num) = 12) => detectOut.out.kind # "threw"
  /\ (rankOut.called /\ Len(rankOut.arg.num) = 12) => rankOut.out.kind # "threw"

C7_Witness ==
  /\ detectOut.called
  /\ rankOut.called
  /\ Len(detectOut.arg.num) = 11
  /\ \E i \in 1..11 : detectOut.arg.num[i] > 0
  /\ detectOut.out.kind = "threw"
  /\ rankOut.out.kind = "threw"

\* The largest of the 24 correlations of the bins x.
MaxScore(x) ==
  CHOOSE s \in {CandidateScore(x, t, m) : t \in 0..11, m \in Modes} :
    IsMaximumScore(x, s)

ScoreOne == [sgn |-> 1, num |-> <<1>>, aa |-> <<1>>, bb |-> <<1>>]
ScoreMinusOne == [sgn |-> -1, num |-> <<1>>, aa |-> <<1>>, bb |-> <<1>>]

\* clamp(x, 0, 1)
ClampUnit(x) ==
  IF NumLt(x, NumConst(0)) THEN NumConst(0)
  ELSE IF NumLt(NumConst(1), x) THEN NumConst(1)
  ELSE x

\* C8: a detection result's confidence is clamp((bestScore + 1) / 2, 0, 1):
\* it lies in [0, 1], a larger best score never has a smaller confidence,
\* and the scores +1, 0 and -1 map to 1, 0.5 and 0.
C8_ConfidenceOfScore ==
  /\ \A call \in {detectOut, firstDetect} :
       (call.called /\ call.out.kind = "key") =>
          LET best == MaxScore(call.arg.num)
              conf == call.out.confidence
          IN  /\ NumLeq(NumConst(0), conf)
              /\ NumLeq(conf, NumConst(1))
              /\ NumEq(conf, ClampUnit([c |-> 1, s |-> best, d |-> 2]))
              /\ ScoreEq(best, ScoreOne) => NumEq(conf, NumConst(1))
              /\ ScoreEq(best, ZeroScore) => NumEq(conf, NumHalfConst)
  /\ (detectOut.called /\ firstDetect.called
        /\ detectOut.out.kind = "key" /\ firstDetect.out.kind = "key") =>
        /\ ScoreGt(MaxScore(detectOut.arg.num), MaxScore(firstDetect.arg.num)) =>
              NumLeq(firstDetect.out.confidence, detectOut.out.confidence)
        /\ ScoreGt(MaxScore(firstDetect.arg.num), MaxScore(detectOut.arg.num)) =>
              NumLeq(detectOut.out.confidence, firstDetect.out.confidence)
  /\ NumEq(confidenceOf(ScoreOne), NumConst(1))
  /\ NumEq(confidenceOf(ZeroScore), NumHalfConst)
  /\ NumEq(confidenceOf(ScoreMinusOne), NumConst(0))

C8_Witness ==
  /\ detectOut.called
  /\ firstDetect.called
  /\ detectOut.out.kind = "key"
  /\ firstDetect.out.kind = "key"
  /\ ScoreEq(MaxScore(firstDetect.arg.num), ScoreOne)
  /\ ScoreGt(MaxScore(detectOut.arg.num), ZeroScore)
  /\ ScoreGt(MaxScore(firstDetect.arg.num), MaxScore(detectOut.arg.num))
  /\ NumLt(detectOut.out.confidence, firstDetect.out.confidence)

C10_AcquisitionFailuresThrow ==
  /\ fetchCalls <= 1
  /\ (detectPromise.state # "none" /\ AudioContextCtor) => fetchCalls = 1
  /\ (detectPromise.state # "none" /\ ~AudioContextCtor) =>
        /\ detectPromise.state = "rejected"
        /\ detectPromise.error = UnsupportedError
        /\ fetchCalls = 0
        /\ fetchPromise.state = "none"
  /\ (fetchPromise.state = "fulfilled" /\ fetchPromise.status \notin 200..299) =>
        /\ detectPromise.state = "rejected"
        /\ detectPromise.error = FetchStatusError(fetchPromise.status)
  /\ decodePromise = "rejected" =>
        /\ detectPromise.state = "rejected"
        /\ detectPromise.error = DecodeError
  /\ detectPromise.state = "rejected" =>
        /\ detectPromise.value.kind \notin {"null", "key"}
        /\ detectPromise.error # NoError
        /\ summaryPromise.state \in {"fulfilled", "rejected"} =>
              /\ summaryPromise.state = "rejected"
              /\ summaryPromise.error = detectPromise.error
              /\ summaryPromise.value.kind \notin {"null", "summary"}

\* A run through the facade whose decoding failed after its one fetch, the
\* facade's promise rejected.
C10_Witness ==
  /\ decodePromise = "rejected"
  /\ fetchCalls = 1
  /\ fetchPromise = Platform("fulfilled", 206)
  /\ detectPromise.state = "rejected"
  /\ summaryPromise.state = "rejected"

\* C19: for every tonic index n and each mode, the score the ranking reports
\* for candidate (n, mode) is the Pearson correlation in which profile index
\* i is paired with histogram index (i + n) mod 12: histogram bin k meets
\* profile index (k - n) mod 12, so that bin n meets the tonic weight.
C19_ProfileIndexMeetsShiftedBin ==
  (rankOut.called /\ HasSignal(rankOut.arg) /\ rankOut.out.kind = "list") =>
     \A k \in 1..Len(rankOut.out.list) :
        LET c == rankOut.out.list[k]
            n == TonicIndex(c.tonic)
        IN  ScoreEq(c.score,
                    PearsonAt(rankOut.arg.num, LiteralOf(c.mode).num, (12 - n) % 12))

\* A bin that carries nothing: non-finite, below -85 dB, or centred outside
\* 50-2000 Hz; a frame is silent when every bin written is such a bin.
SilentBin(e, sampleRate) ==
  \/ ~e.finite
  \/ e.db < -85
  \/ e.bin * sampleRate < 50 * fftSize
  \/ e.bin * sampleRate > 2000 * fftSize

SilentFrames ==
  \A f \in 1..Len(freqBins) :
     \A k \in 1..Len(freqBins[f]) : SilentBin(freqBins[f][k], audio.sampleRate)

\* C13: when every bin of every sampled frame is non-finite, below -85 dB or
\* outside 50-2000 Hz, the histogram stays all-zero, detectKeyFromAudioUrl
\* resolves to null and detectKeyFromAudioUrlWithCandidates resolves to
\* null; neither rejects nor reports a key.
C13_SilenceResolvesNull ==
  (decodePromise = "fulfilled" /\ SilentFrames) =>
     /\ \A k \in 1..12 : histTotal.num[k] = 0 /\ smooth.num[k] = 0
     /\ detectPromise.state # "rejected"
     /\ detectPromise.state = "fulfilled" => detectPromise.value = Null
     /\ pc = "done" => detectPromise.state = "fulfilled"
     /\ summaryPromise.state # "rejected"
     /\ summaryPromise.state = "fulfilled" => summaryPromise.value = NullSummary

\* A run through the facade that sampled at least one frame, all of them
\* silent and one of them with a bin outside the band, and has resolved.
C13_Witness ==
  /\ decodePromise = "fulfilled"
  /\ Len(freqBins) >= 1
  /\ SilentFrames
  /\ \E f \in 1..Len(freqBins) : freqBins[f] = <<Entry(4, 0), Entry(186, 0)>>
  /\ detectPromise = Fulfilled(Null)
  /\ summaryPromise.state = "fulfilled"
  /\ summaryPromise.value = NullSummary

\* The semitone steps and triad qualities of the major and natural-minor
\* scales, and the degrees each progression lists, as the claim states them.
ScaleSteps(mode) ==
  IF mode = "major" THEN <<0, 2, 4, 5, 7, 9, 11>> ELSE <<0, 2, 3, 5, 7, 8, 10>>

TriadSuffix(mode) ==
  IF mode = "major" THEN <<"", "m", "m", "", "", "m", "dim">>
  ELSE <<"m", "dim", "", "m", "m", "", "">>

ListedDegrees(mode) ==
  IF mode = "major" THEN << <<1, 5, 6, 4>>, <<2, 5, 1>>, <<1, 7, 4>>, <<6, 2, 5, 1>> >>
  ELSE << <<1, 6, 3, 7>>, <<2, 5, 1>>, <<1, 7, 4>>, <<6, 2, 5, 1>> >>

DiatonicOf(k) ==
  [d \in 1..7 |->
     TONICS_SHARP[((TonicIndex(k.tonic) + ScaleSteps(k.mode)[d]) % 12) + 1]
       \o TriadSuffix(k.mode)[d]]

ChordsOf(sug) == [d \in 1..Len(sug.diatonicChords) |-> sug.diatonicChords[d].chord]

\* C17: for each of the 24 keys suggestProgressionsForKey returns exactly 7
\* diatonic chords, rooted on the tonic transposed by the major or
\* natural-minor steps with the qualities of the mode, and the chords of
\* every progression are the diatonic chords at its listed degrees; C major
\* gives C Dm Em F G Am Bdim and pop C G Am F, D minor gives Dm Edim F Gm Am
\* A# C and pop Dm A# F C.
C17_DiatonicChordsOfKey ==
  (suggestion.kind # "none" /\ \E t \in 0..11 : TONICS_SHARP[t + 1] = key.tonic) =>
     /\ suggestion.kind = "value"
     /\ Len(suggestion.diatonicChords) = 7
     /\ ChordsOf(suggestion) = DiatonicOf(key)
     /\ \A d \in 1..7 : suggestion.diatonicChords[d].degree = d
     /\ Len(suggestion.progressions) = Len(ListedDegrees(key.mode))
     /\ \A n \in 1..Len(suggestion.progressions) :
          LET degs == ListedDegrees(key.mode)[n]
          IN  suggestion.progressions[n].chords
                = [j \in 1..Len(degs) |-> DiatonicOf(key)[degs[j]]]
     /\ key = [tonic |-> "C", mode |-> "major"] =>
          /\ ChordsOf(suggestion) = <<"C", "Dm", "Em", "F", "G", "Am", "Bdim">>
          /\ suggestion.progressions[1].chords = <<"C", "G", "Am", "F">>
     /\ key = [tonic |-> "D", mode |-> "minor"] =>
          /\ ChordsOf(suggestion) = <<"Dm", "Edim", "F", "Gm", "Am", "A#", "C">>
          /\ suggestion.progressions[1].chords = <<"Dm", "A#", "F", "C">>

\* The chords of D minor have been suggested.
C17_Witness ==
  /\ key = [tonic |-> "D", mode |-> "minor"]
  /\ suggestion.kind = "value"
  /\ ChordsOf(suggestion) = <<"Dm", "Edim", "F", "Gm", "Am", "A#", "C">>
  /\ suggestion.progressions[1].name = "Pop (I-V-vi-IV)"

\* The words of a text: its maximal runs of characters that are not white
\* space.
RECURSIVE WordsOf(_)
WordsOf(s) ==
  IF Len(s) = 0 THEN <<>>
  ELSE IF s[1] \in {" ", "\t", "\n"} THEN WordsOf(Tail(s))
  ELSE LET stop == IF \E i \in 1..Len(s) : s[i] \in {" ", "\t", "\n"}
                   THEN (CHOOSE i \in 1..Len(s) :
                           /\ s[i] \in {" ", "\t", "\n"}
                           /\ \A j \in 1..(i - 1) : s[j] \notin {" ", "\t", "\n"}) - 1
                   ELSE Len(s)
       IN  <<textOf(SubSeq(s, 1, stop))>> \o WordsOf(SubSeq(s, stop + 1, Len(s)))

Capitalised(s) == \E k \in 1..Len(UpperCase) : s[1] = UpperCase[k]

\* The capitalised first letters of the words of a text.
RECURSIVE CapitalisedWords(_, _)
CapitalisedWords(s, atStart) ==
  IF Len(s) = 0 THEN 0
  ELSE IF s[1] \in {" ", "\t", "\n"} THEN CapitalisedWords(Tail(s), TRUE)
  ELSE (IF atStart /\ Capitalised(s) THEN 1 ELSE 0) + CapitalisedWords(Tail(s), FALSE)

\* C18: buildMusicBrainzQuery normalizes white space first; a two-word
\* "Title Artist" input such as "Advice Cavetown" becomes
\* recording:"Title" AND artist:"Artist", and a one-word or a three-word
\* input such as "My way Sinatra" is returned as its words separated by
\* single blanks.
C18_TwoWordsAreTitleAndArtist ==
  mbQuery.called =>
     LET w == WordsOf(raw)
     IN  /\ Len(w) \in {1, 3} => mbQuery.text = joinStrings(w, " ")
         /\ (Len(w) = 2 /\ CapitalisedWords(raw, TRUE) = 2) =>
               mbQuery.text = "recording:\"" \o w[1] \o "\" AND artist:\"" \o w[2] \o "\""
         /\ raw = <<"A", "d", "v", "i", "c", "e", " ", "C", "a", "v", "e", "t", "o", "w", "n">> =>
               mbQuery.text = "recording:\"Advice\" AND artist:\"Cavetown\""
         /\ raw = <<"M", "y", " ", "w", "a", "y", " ", "S", "i", "n", "a", "t", "r", "a">> => mbQuery.text = "My way Sinatra"

\* The part of C18 the code keeps: white space is normalized, and a
\* one-word or three-word input is returned as its normalized text.
C18_ShortInputsAreKept ==
  mbQuery.called =>
     LET w == WordsOf(raw)
     IN  Len(w) \in {1, 2, 3} => mbQuery.text = joinStrings(w, " ")

\* A value as JSON can carry it: properties whose value is undefined are
\* not there.
RECURSIVE Carried(_)
Carried(v) ==
  IF v.t = "object"
  THEN LET ps == SelectSeq(v.items, LAMBDA q : q.v.t # "undefined")
       IN  JsObj([i \in 1..Len(ps) |-> Prop(ps[i].k, Carried(ps[i].v))])
  ELSE IF v.t = "array"
  THEN JsArr([i \in 1..Len(v.items) |-> Carried(v.items[i])])
  ELSE v

\* C15: on a store that works, after any sequence of saves and clears,
\* loadPersistedState returns null if the last call was a clear or nothing
\* was saved, and otherwise v = 1 with the analysisSeconds, song, songInfo
\* and lastQuery of the most recent save.
C15_LoadReturnsLastSave ==
  (loaded.called /\ localStorage.throws = "none"
     /\ lastWrite.op \in {"none", "save", "clear"}) =>
     /\ loaded.out.kind = "returned"
     /\ lastWrite.op # "save" => loaded.out.v = JsNull
     /\ lastWrite.op = "save" =>
          /\ loaded.out.v.t = "object"
          /\ Get(loaded.out.v, "v") = JsNum(1)
          /\ \A f \in {"analysisSeconds", "song", "songInfo", "lastQuery"} :
               Carried(Get(loaded.out.v, f)) = Carried(Get(lastWrite.next, f))

\* The state of the repository's round-trip test has been saved and loaded.
C15_Witness ==
  /\ loaded.called
  /\ localStorage.throws = "none"
  /\ lastWrite.op = "save"
  /\ Get(Get(lastWrite.next, "song"), "title") = JsStr("My Way of Life")
  /\ Get(loaded.out.v, "analysisSeconds") = JsNum(18)
  /\ Get(Get(Get(loaded.out.v, "songInfo"), "keySignature"), "name") = JsStr("D minor")
  /\ Get(loaded.out.v, "lastQuery") = JsStr("My way of life Frank Sinatra")

\* The foreign texts that are a version-1 state.
UsableTexts ==
  { t \in ForeignTexts :
      /\ Len(t) >= 9
      /\ SubSeq(t, 1, 9) = <<"{", Quote("v"), ":", "1", ",", Quote("analysisSeconds"),
                             ":", "24", IF Len(t) = 9 THEN "}" ELSE ",">> }

\* C16: loadPersistedState never throws, and returns null when the stored
\* value is missing, is not valid JSON, is not an object, has v other than
\* 1 or an analysisSeconds that is no number, and when the storage access
\* throws; savePersistedState and clearPersistedState return normally even
\* when the storage throws.
C16_BadStorageLoadsNull ==
  /\ lastWrite.kind = "returned"
  /\ loaded.called =>
       /\ loaded.out.kind = "returned"
       /\ ~localStorage.present => loaded.out.v = JsNull
       /\ localStorage.throws = "all" => loaded.out.v = JsNull
       /\ (localStorage.text \in ForeignTexts \ UsableTexts) => loaded.out.v = JsNull
       /\ (localStorage.throws # "all" /\ localStorage.present
             /\ localStorage.text \in UsableTexts) =>
            Get(loaded.out.v, "analysisSeconds") = JsNum(24)

\* A save on a storage that denies every access, over a text that is not
\* JSON, and a load after it.
C16_Witness ==
  /\ localStorage.throws = "all"
  /\ localStorage.text = <<"{", "not", "json">>
  /\ lastWrite.op = "save"
  /\ lastWrite.kind = "returned"
  /\ loaded.called
  /\ loaded.out = Returned(JsNull)

\* C12: once a run has been cancelled (the cleanup of its effect ran), the
\* step in which it completes dispatches neither INFO_FETCH_SUCCESS nor
\* INFO_FETCH_ERROR and leaves the reducer state as it is, whatever a newer
\* run or RESET has made of it.
C12_CancelledRunNeverDispatches ==
  [][\A r \in 1..Len(runs) :
       (runs[r].cancelled /\ runs[r].awaits # "done"
          /\ Len(runs') >= r /\ runs'[r].awaits = "done") =>
         /\ state' = state
         /\ runs'[r].dispatched = "none"]_vars

\* A run cancelled by a RESET completed with a key without dispatching, the
\* state being the one RESET made.
C12_Witness ==
  /\ state = initialState
  /\ \E r \in 1..Len(runs) :
       /\ runs[r].cancelled
       /\ runs[r].awaits = "done"
       /\ runs[r].outcome = "key"
       /\ runs[r].dispatched = "none"

\* C14: the application state tells apart still analysing, key undetermined
\* and analysis failed: a run whose fetch or decode failed never leaves the
\* application in the state in which a run that found no tonal signal
\* leaves it, nor in the analysing stage.
C14_FailureIsNotUndetermined ==
  \A r \in 1..Len(runs) :
     (runs[r].outcome = "failed" /\ runs[r].dispatched # "none") =>
        /\ runs[r].produced.stage # "fetchingInfo"
        /\ \A q \in 1..Len(runs) :
             (runs[q].outcome = "nosignal" /\ runs[q].dispatched # "none") =>
                runs[r].produced # runs[q].produced

\* The run has been cancelled while its analysis is in flight.
AbortedInFlight == Len(runs) >= 1 /\ runs[1].cancelled /\ pc \notin {"idle", "done"}

\* C11: the caller can abort an analysis in flight, and on that abort the
\* buffer source, the analyser and the audio context are torn down, no
\* further frame is sampled, and the histogram gathered so far is not
\* turned into a result.
C11_AbortStopsAndTearsDown ==
  /\ [](AbortedInFlight =>
          /\ ctx \in {"none", "closing", "closed"}
          /\ src # "started"
          /\ analyser # "connected")
  /\ [][AbortedInFlight =>
          /\ frameIndex' = frameIndex
          /\ detectPromise'.state # "fulfilled"]_vars

\* The enumeration order of the 24 candidates with the given score.
EnumeratedWith(score) ==
  [k \in 1..24 |->
     [tonic |-> TONICS_SHARP[(k - 1) \div 2 + 1],
      mode |-> IF k % 2 = 1 THEN "major" ELSE "minor",
      score |-> score]]

\* C20: on a histogram whose 12 bins are equal and positive every
\* correlation is 0, so that the best match is C major with confidence
\* 0.5 and the ranking is the 24 candidates in enumeration order, each
\* with score 0.
C20_UniformHistogramScoresZero ==
  /\ matcherRun.fn = "detect" /\ matcherRun.tonicIndex > 0 =>
       matcherRun.best = [tonicIndex |-> 0, mode |-> "major", score |-> DoubleZero]
  /\ matcherRun.fn = "detect" /\ matcherRun.out # NoResult =>
       /\ matcherRun.out.kind = "key"
       /\ matcherRun.out.tonic = "C"
       /\ matcherRun.out.mode = "major"
       /\ matcherRun.out.confidence = doubleDiv(doubleOfInt(1), doubleOfInt(2))
  /\ matcherRun.fn = "rank" =>
       \A k \in 1..Len(matcherRun.candidates) : matcherRun.candidates[k].score = DoubleZero
  /\ matcherRun.fn = "rank" /\ matcherRun.out # NoResult =>
       matcherRun.out = [kind |-> "list", list |-> EnumeratedWith(DoubleZero)]

\* The raw total and the smoothed vector after the first n of the spectra
\* sampled, taken one after another in the order sampled: each frame is
\* added to the raw total, then every bin becomes
\* 17/20 * smoothed + 3/20 * raw total.
RECURSIVE FramesFolded(_, _)
FramesFolded(spectra, n) ==
  IF n = 0
  THEN [raw |-> [num |-> ZeroBins(12), den |-> MagDen],
        smoothed |-> [num |-> ZeroBins(12), den |-> MagDen]]
  ELSE LET before == FramesFolded(spectra, n - 1)
           total == binLoop(before.raw, spectra[n], 44100, 1)
       IN  [raw |-> total,
            smoothed |->
              [num |-> [k \in 1..12 |->
                          17 * before.smoothed.num[k]
                            + 3 * total.num[k] * (before.smoothed.den \div MagDen)],
               den |-> 20 * before.smoothed.den]]

\* C21: detectKeyFromAudioUrl samples exactly `frames` frames, one after
\* another; frame i + 1 is sampled only once frame i is in the raw total
\* and smoothed; after each frame every bin is
\* 0.85 * smoothed + 0.15 * rawTotal with the cumulative raw total; and
\* the matcher is handed the smoothed vector after the last frame.
C21_FramesInOrderSmoothed ==
  /\ [](decodePromise = "fulfilled" =>
          /\ Len(freqBins) = frameIndex
          /\ frameIndex <= frames
          /\ (pc = "timer") = (frameIndex < frames)
          /\ histTotal = FramesFolded(freqBins, frameIndex).raw
          /\ smooth = FramesFolded(freqBins, frameIndex).smoothed)
  /\ [][frameIndex' # frameIndex =>
          /\ frameIndex' = frameIndex + 1
          /\ SubSeq(freqBins', 1, frameIndex) = freqBins
          /\ smooth'.den = 20 * smooth.den
          /\ \A k \in 1..12 :
               /\ histTotal'.num[k] >= histTotal.num[k]
               /\ smooth'.num[k] =
                    17 * smooth.num[k] + 3 * histTotal'.num[k] * (smooth.den \div MagDen)]_vars
  /\ [][detectPromise.state = "pending" /\ detectPromise'.state = "fulfilled" =>
          /\ frameIndex = frames
          /\ smooth = FramesFolded(freqBins, frames).smoothed
          /\ detectPromise'.value = detectKeyFromPitchClassHistogram(smooth)]_vars

\* Two different frames with energy were sampled and a key came out.
C21_Witness ==
  /\ pc = "done"
  /\ frames = MaxFrames
  /\ frameIndex = frames
  /\ freqBins[1] # freqBins[2]
  /\ FramesFolded(freqBins, 1).raw # FramesFolded(freqBins, 0).raw
  /\ histTotal # FramesFolded(freqBins, 1).raw
  /\ detectPromise.state = "fulfilled"
  /\ detectPromise.value.kind = "key"

\* The bins frame i of the run put energy into.
Contributed(i) ==
  LET frame == binLoop([num |-> ZeroBins(12), den |-> MagDen], freqBins[i],
                       audio.sampleRate, 1)
  IN  {k \in 1..12 : frame.num[k] > 0}

\* C25: after any number of frames the raw total and the smoothed vector
\* have 12 bins each, no bin of the raw total decreases from one frame to
\* the next, every bin has 0 <= smoothed <= raw total, and a smoothed bin
\* is positive exactly when an earlier frame put energy into that bin.
C25_SmoothedWithinRawTotal ==
  /\ [](decodePromise = "fulfilled" =>
          /\ Len(histTotal.num) = 12
          /\ Len(smooth.num) = 12
          /\ \A k \in 1..12 :
               /\ 0 <= smooth.num[k]
               /\ smooth.num[k] * histTotal.den <= histTotal.num[k] * smooth.den
          /\ {k \in 1..12 : smooth.num[k] > 0}
               = UNION {Contributed(i) : i \in 1..frameIndex})
  /\ [][decodePromise = "fulfilled" =>
          \A k \in 1..12 : histTotal'.num[k] >= histTotal.num[k]]_vars

\* After the last frame one bin has grown in both frames, and another bin
\* has stayed empty.
C25_Witness ==
  /\ decodePromise = "fulfilled"
  /\ frameIndex = MaxFrames
  /\ \E k \in 1..12 :
       /\ k \in Contributed(1)
       /\ k \in Contributed(2)
       /\ smooth.num[k] > 0
       /\ smooth.num[k] * histTotal.den < histTotal.num[k] * smooth.den
  /\ \E k \in 1..12 : smooth.num[k] = 0 /\ histTotal.num[k] = 0

\* C23: once the promise of a run that created an audio context has
\* settled, fulfilled or rejected, the context is closed and the source
\* and the analyser, if created, are stopped and disconnected.
C23_SettledRunHasClosedContext ==
  detectPromise.state \in {"fulfilled", "rejected"} /\ ctx # "none" =>
    /\ ctx = "closed"
    /\ src \in {"none", "disconnected"}
    /\ analyser \in {"none", "disconnected"}

\* C24: in every state the application reaches, stage ready or
\* fetchingInfo has a song, stage ready has a songInfo, stage error has an
\* errorMessage, and RESET, dispatched in any of these states or by the
\* Back and Start over buttons, gives exactly the initial state.
C24_StagesCarryTheirData ==
  /\ [](/\ state.stage \in {"ready", "fetchingInfo"} => state.song # NoSong
        /\ state.stage = "ready" => state.songInfo # NoSongInfo /\ state.songInfo.present
        /\ state.stage = "error" => state.errorMessage # NoMessage
        /\ reducer(state, AppAction("RESET")) = initialState)
  /\ [][Reset => state' = initialState]_vars

\* A song is ready with its info after an earlier run was cancelled and
\* completed without a dispatch.
C24_Witness ==
  /\ state.stage = "ready"
  /\ state.song # NoSong
  /\ state.songInfo.present
  /\ \E r \in 1..Len(runs) :
       runs[r].cancelled /\ runs[r].awaits = "done" /\ runs[r].dispatched = "none"

\* The keySignature fakeFetchSongInfo builds for a detected tonic and mode.
NamedKey(tonic, mode) ==
  [kind |-> "key", name |-> tonic \o " " \o mode, confidence |-> NumConst(1),
   candidates |-> <<>>]

\* Each of the 12 tonics of the detector is one noteIndex finds; the chord
\* step makes three lines of each of the 24 names, and none of no key.
DetectedTonicsAccepted ==
  /\ \A i \in 1..12 : noteIndex(TONICS_SHARP[i]) # -1
  /\ \A i \in 1..12 : \A mode \in Modes :
       /\ ~chordStepThrows(NamedKey(TONICS_SHARP[i], mode))
       /\ Len(songInfoOf(NamedKey(TONICS_SHARP[i], mode)).chords) = 3
  /\ songInfoOf(NoKeySignature).chords = <<>>

\* C26: every tonic the detector can name is a tonic
\* suggestProgressionsForKey accepts; so for every key that is not null,
\* detected by the run or read from the cache, the chord step does not
\* throw and the song info has exactly three progression lines; and a
\* null key gives an empty chord list.
C26_DetectedTonicsHaveChords ==
  /\ DetectedTonicsAccepted
  /\ \A r \in 1..Len(runs) :
       runs[r].awaits \in {"then", "done"} =>
         /\ runs[r].dispatched # "INFO_FETCH_ERROR"
         /\ runs[r].songInfo.keySignature.kind # "null" =>
              /\ runs[r].outcome \in {"key", "cached"}
              /\ ~chordStepThrows(runs[r].songInfo.keySignature)
              /\ Len(runs[r].songInfo.chords) = 3
         /\ runs[r].songInfo.keySignature.kind = "null" =>
              runs[r].songInfo.chords = <<>>
  /\ state.stage # "error"
  /\ state.songInfo.present =>
       Len(state.songInfo.chords) = IF state.songInfo.keySignature.kind = "null" THEN 0 ELSE 3

\* One run detected a key, a later one read it from the cache, a third
\* found no key; all have returned.
C26_Witness ==
  /\ \E r \in 1..Len(runs) :
       /\ runs[r].outcome = "key"
       /\ runs[r].awaits = "done"
       /\ Len(runs[r].songInfo.chords) = 3
  /\ \E r \in 1..Len(runs) :
       /\ runs[r].outcome = "cached"
       /\ runs[r].awaits = "done"
       /\ runs[r].dispatched = "INFO_FETCH_SUCCESS"
       /\ Len(runs[r].songInfo.chords) = 3
  /\ \E r \in 1..Len(runs) :
       /\ runs[r].outcome \in {"nosignal", "failed", "nopreview"}
       /\ runs[r].awaits \in {"then", "done"}
       /\ runs[r].songInfo.chords = <<>>


(***************************************************************************)
(* The key cache (App.tsx lines 90, 101-125).  The analysis samples the    *)
(* playing preview at timer ticks (keyDetection.ts lines 168-193), so one  *)
(* preview analysed for one duration may be heard as one key by one run    *)
(* and as another key by the next.                                         *)
(***************************************************************************)
\* The settlements of SpecApp and the key of an F# major triad.
HeardEitherWay ==
  AudioSettlements
    \cup {facadeSettles(Fulfilled(detectKeyFromPitchClassHistogram(Hist(TriadBins(6)))))}

\* The promise a run waits for settles, the preview heard either way.
RunSettlesEitherWay ==
  /\ \E r \in 1..Len(runs) :
       /\ runs[r].awaits \in {"audio", "then"}
       /\ \E settled \in HeardEitherWay : Settles(r, settled)
  /\ UNCHANGED <<analysisSeconds, lookups, selections, deps>>
  /\ UNCHANGED exceptApp

NextCache ==
  \/ ClickResult
  \/ LookupSettles
  \/ Commit
  \/ Reset
  \/ TryAgain
  \/ AnalyzeLonger
  \/ RunSettlesEitherWay

SpecCache == InitApp /\ [][NextCache]_vars

\* The cache key of a run.
keyOfRun(run) == cacheKeyOf(run.song, run.seconds)

\* C22: the key cache is keyed by (preview URL, secondsToAnalyze): an entry
\* is written only with the non-null key result of a completed analysis of
\* that same URL and duration; a run started while its key is cached
\* returns the cached value and starts no analysis; a run whose key is not
\* cached reads nothing from the cache; and a write to a key that has an
\* entry maps it to an equivalent result (the same key name).
C22_CacheWritesAreIdempotent ==
  /\ [](/\ \A e1 \in keyCache, e2 \in keyCache : e1.key = e2.key => e1 = e2
        /\ \A e \in keyCache :
             /\ e.value.kind = "key"
             /\ \E r \in 1..Len(runs) :
                  /\ keyOfRun(runs[r]) = e.key
                  /\ runs[r].outcome = "key"
                  /\ runs[r].songInfo.keySignature = e.value)
  /\ [][/\ \A e \in keyCache' \ keyCache :
             \E r \in 1..Len(runs) :
               /\ runs[r].awaits = "audio"
               /\ runs'[r].outcome = "key"
               /\ keyOfRun(runs[r]) = e.key
               /\ runs'[r].songInfo.keySignature = e.value
        /\ Len(runs') > Len(runs) =>
             LET started == runs'[Len(runs')]
             IN  IF Cached(keyCache, keyOfRun(started))
                 THEN /\ started.outcome = "cached"
                      /\ started.awaits = "then"
                      /\ started.songInfo.keySignature
                           = cacheGet(keyCache, keyOfRun(started))
                 ELSE /\ started.outcome # "cached"
                      /\ started.songInfo.keySignature.kind = "null"
        /\ \A e1 \in keyCache, e2 \in keyCache' :
             e1.key = e2.key => e1.value.name = e2.value.name]_vars

=============================================================================
